---- MODULE Spec2Model ----
(***************************************************************************)
(* Model of m3u-checker.js: parseM3UContent, checkSingleLink,              *)
(* processLinks, generateOutputM3U and the per-file part of main.          *)
(*                                                                         *)
(* Text is a sequence of tokens.  A token is a run of characters that the  *)
(* code never looks inside: the prefixes it tests with startsWith          *)
(* ("#EXTM3U", "#EXTINF", "http://", "https://"), the newline it splits    *)
(* on, a blank, and opaque payloads ("A", "x", ...).  The empty sequence   *)
(* is the empty string ''.  Indices are the code's 0-based indices.        *)
(***************************************************************************)
EXTENDS Integers, Sequences, FiniteSets, TLC

VARIABLES originalM3uContent, linksToProcess, pc, i, probes, activePromises,
          awaited, linksProcessedCount, tempValidLinks, outputM3uContent,
          written, submitted, calls, run, scraper, logo

vars == <<originalM3uContent, linksToProcess, pc, i, probes, activePromises,
          awaited, linksProcessedCount, tempValidLinks, outputM3uContent,
          written, submitted, calls, run, scraper, logo>>

\* the variables of the playlist checker (src/m3u-checker.js)
checkerVars == <<originalM3uContent, linksToProcess, pc, i, probes, activePromises,
                 awaited, linksProcessedCount, tempValidLinks, outputM3uContent,
                 written, submitted, calls, run>>

\* scraper is the state of the slug scrapers (src/genres.js, src/languages.js,
\* src/unnamed/part_001) and logo the state of the logo tool
\* (src/unnamed/part_000); the specifications of the playlist checker leave
\* them at NoScraper and NoLogo
NoScraper == [pc |-> "off"]

NoLogo == [pc |-> "off"]

\* run is main's position in its loop over the files of the input directory;
\* the specifications that follow one document leave it at NoRun
NoRun == [files |-> <<>>, index |-> 0, handled |-> {}, persisted |-> {}, exitCode |-> 0]

-----------------------------------------------------------------------------
(* Bounds of the model *)

\* longest document, in lines, of the rebuild specification
MaxLines == 4

\* most stream entries of a document of the executor specification
MaxEntries == 3

\* const concurrencyLimit (m3u-checker.js:13, where it is 10), scaled down so
\* that documents of MaxEntries entries fill and refill the pool
concurrencyLimit == 2

(* Program constants *)

maxRedirects == 3

-----------------------------------------------------------------------------
(* Strings *)

NL == "\n"
Blank == " "
EXTM3U == "#EXTM3U"
EXTINF == "#EXTINF"
HTTP == "http://"
HTTPS == "https://"

\* String.prototype.startsWith for a one-token prefix
startsWith(line, prefix) == Len(line) > 0 /\ line[1] = prefix

RECURSIVE trimStart(_)
trimStart(s) ==
  IF Len(s) > 0 /\ s[1] = Blank THEN trimStart(Tail(s)) ELSE s

RECURSIVE trimEnd(_)
trimEnd(s) ==
  IF Len(s) > 0 /\ s[Len(s)] = Blank
    THEN trimEnd(SubSeq(s, 1, Len(s) - 1))
    ELSE s

\* String.prototype.trim
trim(s) == trimEnd(trimStart(s))

RECURSIVE splitFrom(_, _, _)
splitFrom(text, k, cur) ==
  IF k > Len(text) THEN <<cur>>
  ELSE IF text[k] = NL THEN <<cur>> \o splitFrom(text, k + 1, <<>>)
  ELSE splitFrom(text, k + 1, Append(cur, text[k]))

\* text.split('\n'): always at least one line
split(text) == splitFrom(text, 1, <<>>)

RECURSIVE join(_)
\* lines.join('\n')
join(lines) ==
  IF Len(lines) = 0 THEN <<>>
  ELSE IF Len(lines) = 1 THEN lines[1]
  ELSE lines[1] \o <<NL>> \o join(Tail(lines))

\* originalLines[k] with the code's 0-based index
At(lines, k) == lines[k + 1]

isUrl(line) == startsWith(line, HTTP) \/ startsWith(line, HTTPS)

-----------------------------------------------------------------------------
(* parseM3UContent *)

ParseStart == [links |-> <<>>, currentTitle |-> <<>>, currentTitleLineIndex |-> -1]

\* mutant of ParseStep: a line of other content between the marker and the
\* reference makes the parser forget the marker
ParseStepStrict(st, originalLines, k) ==
  LET line == trim(At(originalLines, k)) IN
  IF startsWith(line, EXTINF)
    THEN [st EXCEPT !.currentTitle = line, !.currentTitleLineIndex = k]
  ELSE IF isUrl(line)
    THEN [links |-> Append(st.links,
                     [title |-> st.currentTitle,
                      url |-> line,
                      originalIndex |-> k,
                      originalTitleLineIndex |-> st.currentTitleLineIndex]),
          currentTitle |-> <<>>,
          currentTitleLineIndex |-> -1]
  ELSE IF Len(line) > 0 /\ line[1] \notin {"#EXTGRP", EXTM3U}
    THEN [st EXCEPT !.currentTitle = <<>>, !.currentTitleLineIndex = -1]
  ELSE st

\* mutant of ParseStep: the pending marker is not cleared by the entry
ParseStepKeepsTitle(st, originalLines, k) ==
  LET line == trim(At(originalLines, k)) IN
  IF startsWith(line, EXTINF)
    THEN [st EXCEPT !.currentTitle = line, !.currentTitleLineIndex = k]
  ELSE IF isUrl(line)
    THEN [st EXCEPT !.links = Append(st.links,
                     [title |-> st.currentTitle,
                      url |-> line,
                      originalIndex |-> k,
                      originalTitleLineIndex |-> st.currentTitleLineIndex])]
  ELSE st

\* one iteration of the parser's loop over originalLines
ParseStep(st, originalLines, k) ==
  LET line == trim(At(originalLines, k)) IN
  IF startsWith(line, EXTINF)
    THEN [st EXCEPT !.currentTitle = line, !.currentTitleLineIndex = k]
  ELSE IF isUrl(line)
    THEN [links |-> Append(st.links,
                     [title |-> st.currentTitle,
                      url |-> line,
                      originalIndex |-> k,
                      originalTitleLineIndex |-> st.currentTitleLineIndex]),
          currentTitle |-> <<>>,
          currentTitleLineIndex |-> -1]
  ELSE st

RECURSIVE ParseLoop(_, _, _)
ParseLoop(st, originalLines, k) ==
  IF k < Len(originalLines)
    THEN ParseLoop(ParseStep(st, originalLines, k), originalLines, k + 1)
    ELSE st

parseM3UContent(m3uContent) ==
  ParseLoop(ParseStart, split(m3uContent), 0).links

-----------------------------------------------------------------------------
(* generateOutputM3U *)

\* Map.prototype.has / get / set / size on tempValidLinks
Has(map, k) == k \in DOMAIN map
EmptyMap == [k \in {} |-> <<>>]
MapSet(map, k, v) == [x \in DOMAIN map \cup {k} |-> IF x = k THEN v ELSE map[x]]
MapSize(map) == Cardinality(DOMAIN map)

\* mutant of GenStart: the output does not start from the header
GenStartEmpty == [outputLines |-> <<>>, addedLines |-> {}]

GenStart == [outputLines |-> <<<<EXTM3U>>>>, addedLines |-> {<<EXTM3U>>}]

\* mutant of PushNew: the line is pushed without the look-up in addedLines
PushAlways(st, line) ==
  [outputLines |-> Append(st.outputLines, line),
   addedLines |-> st.addedLines \cup {line}]

\* mutant of PushNew: the new line is put right behind the header
PushNewFront(st, line) ==
  IF line \in st.addedLines
    THEN st
    ELSE [outputLines |-> <<Head(st.outputLines), line>> \o Tail(st.outputLines),
          addedLines |-> st.addedLines \cup {line}]

\* if (!addedLines.has(line)) { outputLines.push(line); addedLines.add(line); }
PushNew(st, line) ==
  IF line \in st.addedLines
    THEN st
    ELSE [outputLines |-> Append(st.outputLines, line),
          addedLines |-> st.addedLines \cup {line}]

\* mutant of ExtinfBranch: the pair is emitted whenever a next line exists,
\* without the look-up in tempValidLinks
ExtinfBranchUnchecked(st, originalLines, valid, k) ==
  LET nextLineIndex == k + 1 IN
  IF nextLineIndex < Len(originalLines)
    THEN [st |-> PushNew(PushNew(st, trim(At(originalLines, k))),
                         trim(At(originalLines, nextLineIndex))),
          k |-> nextLineIndex]
    ELSE [st |-> st, k |-> k]

\* mutant of ExtinfBranch: the metadata line is pushed and the URL line is
\* skipped without being pushed
ExtinfBranchTitleOnly(st, originalLines, valid, k) ==
  LET nextLineIndex == k + 1 IN
  IF nextLineIndex < Len(originalLines) /\ Has(valid, nextLineIndex)
    THEN [st |-> PushNew(st, valid[nextLineIndex].titleLine),
          k |-> nextLineIndex]
    ELSE [st |-> st, k |-> k]

\* the #EXTINF branch: the pair is emitted when the next index is a valid key
ExtinfBranch(st, originalLines, valid, k) ==
  LET nextLineIndex == k + 1 IN
  IF nextLineIndex < Len(originalLines) /\ Has(valid, nextLineIndex)
    THEN [st |-> PushNew(PushNew(st, valid[nextLineIndex].titleLine),
                         valid[nextLineIndex].urlLine),
          k |-> nextLineIndex]
    ELSE [st |-> st, k |-> k]

\* mutant of UrlBranch: a URL line without a pushed #EXTINF is never emitted
UrlBranchNever(st, valid, k) == st

\* the http:// / https:// branch: a line not consumed by an #EXTINF above it
UrlBranch(st, valid, k) ==
  IF Has(valid, k) THEN PushNew(st, valid[k].urlLine) ELSE st

\* mutant of OtherBranch: other lines are dropped
OtherBranchDrops(st, line) == st

\* the last branch: any other non-empty line
OtherBranch(st, line) ==
  IF Len(line) > 0 THEN PushNew(st, line) ELSE st

\* mutant of GenStep: the line is not trimmed
GenStepUntrimmed(st, originalLines, valid, k) ==
  LET line == At(originalLines, k) IN
  IF startsWith(line, EXTM3U) THEN [st |-> st, k |-> k]
  ELSE IF startsWith(line, EXTINF) THEN ExtinfBranch(st, originalLines, valid, k)
  ELSE IF isUrl(line) THEN [st |-> UrlBranch(st, valid, k), k |-> k]
  ELSE [st |-> OtherBranch(st, line), k |-> k]

\* one iteration of the loop; k is the loop variable after the body
GenStep(st, originalLines, valid, k) ==
  LET line == trim(At(originalLines, k)) IN
  IF startsWith(line, EXTM3U) THEN [st |-> st, k |-> k]
  ELSE IF startsWith(line, EXTINF) THEN ExtinfBranch(st, originalLines, valid, k)
  ELSE IF isUrl(line) THEN [st |-> UrlBranch(st, valid, k), k |-> k]
  ELSE [st |-> OtherBranch(st, line), k |-> k]

RECURSIVE GenLoop(_, _, _, _)
GenLoop(st, originalLines, valid, k) ==
  IF k < Len(originalLines)
    THEN LET r == GenStep(st, originalLines, valid, k)
         IN  GenLoop(r.st, originalLines, valid, r.k + 1)
    ELSE st

generateOutputM3U(content, valid) ==
  join(GenLoop(GenStart, split(content), valid, 0).outputLines)

-----------------------------------------------------------------------------
(* checkSingleLink *)

\* what one fetch(item.url, {method: 'HEAD', redirect: 'manual'}) can do:
\* answer with a status and maybe a location header, be aborted by the
\* timer of its own call, or fail at transport level
Statuses == {200, 204, 301, 404}
\* location headers: an absolute URL, a path on the host probed, and a value
\* new URL(...) throws on
Locations == {<<HTTP, "z">>, <<"/p">>, <<HTTP>>}
NoLocation == <<>>

Responses ==
  [kind : {"response"}, status : Statuses, hasLocation : {TRUE}, location : Locations]
    \cup [kind : {"response"}, status : Statuses, hasLocation : {FALSE}, location : {NoLocation}]
    \cup [kind : {"abort", "error"}, status : {0}, hasLocation : {FALSE}, location : {NoLocation}]

\* the fetch outcomes the executor specification draws from: one of each
\* kind of outcome checkSingleLink tells apart
ExecResponses ==
  {r \in Responses :
     \/ r.kind # "response"
     \/ r.status \in {200, 404} /\ ~r.hasLocation
     \/ r.status = 301 /\ r.hasLocation /\ r.location = <<HTTP, "z">>}

\* new URL(redirectUrl, item.url) does not throw: an absolute URL has a host
canResolve(redirectUrl) == isUrl(redirectUrl) => Len(redirectUrl) > 1

\* new URL(redirectUrl, item.url).href
\* mutant of resolveUrl: the redirect is "followed" to the URL just probed
resolveUrlKeepBase(redirectUrl, base) == base

resolveUrl(redirectUrl, base) ==
  IF isUrl(redirectUrl) THEN redirectUrl ELSE <<base[1], base[2]>> \o redirectUrl

NoResult == [url |-> <<>>, status |-> "none", finalUrl |-> <<>>]
IdleProbe == [phase |-> "idle", url |-> <<>>, redirectCount |-> 0, result |-> NoResult]

\* the call checkSingleLink(item, fileName, redirectCount, quiet) up to its
\* await fetch(...)
StartProbe(url, redirectCount) ==
  [phase |-> "fetching", url |-> url, redirectCount |-> redirectCount,
   result |-> NoResult]

\* mutant of isFollowedRedirect: the redirect count is not tested
isFollowedRedirectUnbounded(resp, redirectCount) ==
  /\ resp.kind = "response"
  /\ resp.status >= 300
  /\ resp.status < 400
  /\ resp.hasLocation

\* mutant of isFollowedRedirect: the last allowed redirect is not followed
isFollowedRedirectOneShort(resp, redirectCount) ==
  /\ resp.kind = "response"
  /\ resp.status >= 300
  /\ resp.status < 400
  /\ resp.hasLocation
  /\ redirectCount < maxRedirects - 1

\* the redirect test of checkSingleLink
isFollowedRedirect(resp, redirectCount) ==
  /\ resp.kind = "response"
  /\ resp.status >= 300
  /\ resp.status < 400
  /\ resp.hasLocation
  /\ redirectCount < maxRedirects

\* the catch block: the value returned for an error of the given name
catchError(url, name) ==
  IF name = "AbortError"
    THEN [url |-> url, status |-> "timedout", finalUrl |-> <<>>]
    ELSE [url |-> url, status |-> "invalid", finalUrl |-> <<>>]

\* mutant of ResultOf: every 2xx status is taken for a success
ResultOfAny2xx(url, resp) ==
  IF resp.kind = "response"
    THEN IF resp.status \in 200..299
           THEN [url |-> url, status |-> "200", finalUrl |-> url]
           ELSE [url |-> url, status |-> ToString(resp.status), finalUrl |-> <<>>]
  ELSE IF resp.kind = "abort"
    THEN catchError(url, "AbortError")
  ELSE catchError(url, "TypeError")

\* the value checkSingleLink returns on a fetch outcome it does not follow
ResultOf(url, resp) ==
  IF resp.kind = "response"
    THEN IF resp.status = 200
           THEN [url |-> url, status |-> "200", finalUrl |-> url]
           ELSE [url |-> url, status |-> ToString(resp.status), finalUrl |-> <<>>]
  ELSE IF resp.kind = "abort"
    THEN catchError(url, "AbortError")
  ELSE catchError(url, "TypeError")

\* the call has returned: only the returned value is left of it
Resolved(result) ==
  [phase |-> "resolved", url |-> <<>>, redirectCount |-> 0, result |-> result]

\* mutant of AfterFetch: the TypeError of new URL(...) escapes the call,
\* whose promise is rejected
AfterFetchThrowing(probe, resp) ==
  IF isFollowedRedirect(resp, probe.redirectCount)
    THEN IF canResolve(resp.location)
           THEN StartProbe(resolveUrl(resp.location, probe.url), probe.redirectCount + 1)
           ELSE [phase |-> "rejected", url |-> <<>>, redirectCount |-> 0,
                 result |-> NoResult]
    ELSE Resolved(ResultOf(probe.url, resp))

\* checkSingleLink from the settling of its fetch to its next await (the
\* recursive call's fetch) or to its return
AfterFetch(probe, resp) ==
  IF isFollowedRedirect(resp, probe.redirectCount)
    THEN IF canResolve(resp.location)
           THEN StartProbe(resolveUrl(resp.location, probe.url), probe.redirectCount + 1)
           ELSE Resolved(catchError(probe.url, "TypeError"))
    ELSE Resolved(ResultOf(probe.url, resp))

-----------------------------------------------------------------------------
(* processLinks *)

N == Len(linksToProcess)
Entries == 0..(N - 1)

\* mutant of ThenValidLinks: results are keyed by their order of arrival
ThenValidLinksByArrival(valid, item, result) ==
  IF result.status = "200"
    THEN MapSet(valid, MapSize(valid),
                [titleLine |-> item.title, urlLine |-> result.finalUrl])
    ELSE valid

\* the .then((result) => ...) callback of entry e's promise
ThenValidLinks(valid, item, result) ==
  IF result.status = "200"
    THEN LET urlToStore == IF result.finalUrl # <<>> THEN result.finalUrl ELSE item.url
         IN  MapSet(valid, item.originalIndex,
                    [titleLine |-> item.title, urlLine |-> urlToStore])
    ELSE valid

\* mutant of mustAwaitRace: the pool is taken to be full one entry late
mustAwaitRaceOffByOne(active) == Cardinality(active) > concurrencyLimit

\* if (activePromises.size >= concurrencyLimit) await Promise.race(...)
mustAwaitRace(active) == Cardinality(active) >= concurrencyLimit

\* the for loop from index k to its next await: entries are started until
\* the pool is full (await Promise.race) or the list is exhausted
\* (await Promise.allSettled).  st.submitted counts, per entry, the calls
\* checkSingleLink(item, fileName, 0, quiet) the loop has made.
RECURSIVE LoopFrom(_, _, _)
LoopFrom(links, k, st) ==
  IF k < Len(links)
    THEN LET st2 == [probes |-> [st.probes EXCEPT ![k] = StartProbe(At(links, k).url, 0)],
                     activePromises |-> st.activePromises \cup {k},
                     submitted |-> [st.submitted EXCEPT ![k] = @ + 1]]
         IN  IF mustAwaitRace(st2.activePromises)
               THEN [pc |-> "race", i |-> k, st |-> st2]
               ELSE LoopFrom(links, k + 1, st2)
    ELSE [pc |-> "allSettled", i |-> k, st |-> st]

\* mutant of raceSettled: the loop waits for the whole pool, as a batch
raceSettledBatch(pr, aw) == \A e \in aw : pr[e].phase = "done"

\* Promise.race(awaited) has settled: one of the awaited promises has
raceSettled(pr, aw) == \E e \in aw : pr[e].phase = "done"

\* mutant of allSettled: the loop's end is not followed by a wait for the
\* validations still in flight
allSettledNotAwaited(pr, aw) == \A e \in aw : pr[e].phase \in {"fetching", "resolved", "done"}

\* Promise.allSettled(awaited) has settled: all of the awaited promises have
allSettled(pr, aw) == \A e \in aw : pr[e].phase = "done"

-----------------------------------------------------------------------------
(* main, for one file *)

NoOutput == <<"(none)">>

\* mutant of beyondHeader: the rebuilt content is always taken to hold more
\* than the header
beyondHeaderAlways(content) == TRUE

\* outputM3uContent.trim() !== '#EXTM3U'
beyondHeader(content) == trim(content) # <<EXTM3U>>

\* main from the end of readFile to its next await, or to the next file
MainRead ==
  /\ pc = "start"
  /\ LET links == parseM3UContent(originalM3uContent) IN
     /\ linksToProcess' = links
     /\ IF Len(links) = 0
          THEN LET out == generateOutputM3U(originalM3uContent, EmptyMap) IN
               /\ outputM3uContent' = out
               /\ written' = beyondHeader(out)
               /\ pc' = "fileDone"
               /\ UNCHANGED <<i, probes, activePromises, awaited, submitted>>
          ELSE LET r == LoopFrom(links, 0,
                                 [probes |-> [e \in 0..(Len(links) - 1) |-> IdleProbe],
                                  activePromises |-> {},
                                  submitted |-> [e \in 0..(Len(links) - 1) |-> 0]]) IN
               /\ pc' = r.pc
               /\ i' = r.i
               /\ probes' = r.st.probes
               /\ activePromises' = r.st.activePromises
               /\ awaited' = r.st.activePromises
               /\ submitted' = r.st.submitted
               /\ UNCHANGED <<outputM3uContent, written>>
  /\ UNCHANGED <<originalM3uContent, linksProcessedCount, tempValidLinks, calls, run>>
  /\ UNCHANGED <<scraper, logo>>

\* mutant of FetchSettles: the probes share one abort controller, so a
\* failing probe aborts the probes in flight beside it
FetchSettlesFailFast(e, resp) ==
  /\ probes[e].phase = "fetching"
  /\ LET mine == AfterFetch(probes[e], resp)
         failed == mine.phase = "resolved" /\ mine.result.status # "200"
     IN  probes' = [f \in DOMAIN probes |->
                      IF f = e THEN mine
                      ELSE IF failed /\ probes[f].phase = "fetching"
                        THEN AfterFetch(probes[f],
                               [kind |-> "abort", status |-> 0,
                                hasLocation |-> FALSE, location |-> NoLocation])
                      ELSE probes[f]]
  /\ UNCHANGED <<originalM3uContent, linksToProcess, pc, i, activePromises,
                 awaited, linksProcessedCount, tempValidLinks,
                 outputM3uContent, written, submitted, calls, run>>
  /\ UNCHANGED <<scraper, logo>>

\* the fetch of entry e settles and checkSingleLink runs on
FetchSettles(e, resp) ==
  /\ probes[e].phase = "fetching"
  /\ probes' = [probes EXCEPT ![e] = AfterFetch(probes[e], resp)]
  /\ UNCHANGED <<originalM3uContent, linksToProcess, pc, i, activePromises,
                 awaited, linksProcessedCount, tempValidLinks,
                 outputM3uContent, written, submitted, calls, run>>
  /\ UNCHANGED <<scraper, logo>>

\* the completion callback of entry e runs
ThenCallback(e) ==
  /\ probes[e].phase = "resolved"
  /\ tempValidLinks' = ThenValidLinks(tempValidLinks, At(linksToProcess, e), probes[e].result)
  /\ linksProcessedCount' = linksProcessedCount + 1
  /\ activePromises' = activePromises \ {e}
  /\ probes' = [probes EXCEPT ![e].phase = "done"]
  /\ UNCHANGED <<originalM3uContent, linksToProcess, pc, i, awaited,
                 outputM3uContent, written, submitted, calls, run>>
  /\ UNCHANGED <<scraper, logo>>

\* mutant of RaceResume: the loop resumes at the entry it started last
RaceResumeSameIndex ==
  /\ pc = "race"
  /\ raceSettled(probes, awaited)
  /\ LET r == LoopFrom(linksToProcess, i,
                       [probes |-> probes, activePromises |-> activePromises,
                        submitted |-> submitted]) IN
     /\ pc' = r.pc
     /\ i' = r.i
     /\ probes' = r.st.probes
     /\ activePromises' = r.st.activePromises
     /\ awaited' = r.st.activePromises
     /\ submitted' = r.st.submitted
  /\ UNCHANGED <<originalM3uContent, linksToProcess, linksProcessedCount,
                 tempValidLinks, outputM3uContent, written, calls, run>>
  /\ UNCHANGED <<scraper, logo>>

\* processLinks resumes from await Promise.race and runs the loop on
RaceResume ==
  /\ pc = "race"
  /\ raceSettled(probes, awaited)
  /\ LET r == LoopFrom(linksToProcess, i + 1,
                       [probes |-> probes, activePromises |-> activePromises,
                        submitted |-> submitted]) IN
     /\ pc' = r.pc
     /\ i' = r.i
     /\ probes' = r.st.probes
     /\ activePromises' = r.st.activePromises
     /\ awaited' = r.st.activePromises
     /\ submitted' = r.st.submitted
  /\ UNCHANGED <<originalM3uContent, linksToProcess, linksProcessedCount,
                 tempValidLinks, outputM3uContent, written, calls, run>>
  /\ UNCHANGED <<scraper, logo>>

\* processLinks resumes from await Promise.allSettled and returns
AllSettledResume ==
  /\ pc = "allSettled"
  /\ allSettled(probes, awaited)
  /\ pc' = "returned"
  /\ UNCHANGED <<originalM3uContent, linksToProcess, i, probes, activePromises,
                 awaited, linksProcessedCount, tempValidLinks,
                 outputM3uContent, written, submitted, calls, run>>
  /\ UNCHANGED <<scraper, logo>>

\* mutant of MainAfterCheck: the content is rebuilt and written although no
\* entry is valid
MainAfterCheckAlwaysRebuilds ==
  /\ pc = "returned"
  /\ pc' = "fileDone"
  /\ LET out == generateOutputM3U(originalM3uContent, tempValidLinks) IN
     /\ outputM3uContent' = out
     /\ written' = beyondHeader(out)
  /\ UNCHANGED <<originalM3uContent, linksToProcess, i, probes, activePromises,
                 awaited, linksProcessedCount, tempValidLinks, submitted, calls, run>>
  /\ UNCHANGED <<scraper, logo>>

\* main from the return of processLinks to the next file
MainAfterCheck ==
  /\ pc = "returned"
  /\ pc' = "fileDone"
  /\ IF MapSize(tempValidLinks) = 0
       THEN UNCHANGED <<outputM3uContent, written>>
       ELSE LET out == generateOutputM3U(originalM3uContent, tempValidLinks) IN
            /\ outputM3uContent' = out
            /\ written' = beyondHeader(out)
  /\ UNCHANGED <<originalM3uContent, linksToProcess, i, probes, activePromises,
                 awaited, linksProcessedCount, tempValidLinks, submitted, calls, run>>
  /\ UNCHANGED <<scraper, logo>>

-----------------------------------------------------------------------------
(* Documents of the executor specification *)

Names == <<"a", "b", "c", "d", "e", "f">>

RECURSIVE PairLines(_)
PairLines(m) ==
  IF m = 0 THEN <<>>
  ELSE PairLines(m - 1) \o << <<EXTINF, Names[m]>>, <<HTTP, Names[m]>> >>

RECURSIVE BareLines(_)
BareLines(m) ==
  IF m = 0 THEN <<>> ELSE BareLines(m - 1) \o << <<HTTP, Names[m]>> >>

ExecDocs ==
  {<< <<EXTM3U>> >> \o PairLines(m) \o << <<>> >> : m \in 0..MaxEntries}
    \cup {<< <<EXTM3U>>, <<"#EXTGRP">> >> \o BareLines(m) : m \in 0..MaxEntries}

Init ==
  /\ originalM3uContent \in {join(d) : d \in ExecDocs}
  /\ linksToProcess = <<>>
  /\ pc = "start"
  /\ i = 0
  /\ probes = <<>>
  /\ activePromises = {}
  /\ awaited = {}
  /\ linksProcessedCount = 0
  /\ tempValidLinks = EmptyMap
  /\ outputM3uContent = NoOutput
  /\ written = FALSE
  /\ submitted = <<>>
  /\ calls = <<>>
  /\ run = NoRun
  /\ scraper = NoScraper
  /\ logo = NoLogo

Next ==
  \/ MainRead
  \/ \E e \in Entries : \E resp \in ExecResponses : FetchSettles(e, resp)
  \/ \E e \in Entries : ThenCallback(e)
  \/ RaceResume
  \/ AllSettledResume
  \/ MainAfterCheck

Spec == Init /\ [][Next]_vars

-----------------------------------------------------------------------------
(* parseM3UContent, the validations and generateOutputM3U as functions: the  *)
(* rebuild specification applies them to every document of up to MaxLines   *)
(* lines over LineValues and to every combination of outcomes               *)

LineValues ==
  { <<EXTM3U>>,
    <<EXTINF, "A">>,
    <<EXTINF, "B">>,
    <<HTTPS, "x">>,
    <<HTTP, "z">>,
    <<"#EXTGRP">>,
    <<Blank, "#EXTGRP", Blank>>,
    <<>> }

RebuildDocs == UNION {[1..n -> LineValues] : n \in 1..MaxLines}

Response(status) ==
  [kind |-> "response", status |-> status, hasLocation |-> FALSE, location |-> NoLocation]
Redirect(status, location) ==
  [kind |-> "response", status |-> status, hasLocation |-> TRUE, location |-> location]

\* one validation from its call to its return, its fetches settling as
\* resps says, one after the other
RECURSIVE RunProbe(_, _)
RunProbe(probe, resps) ==
  IF probe.phase # "fetching" \/ Len(resps) = 0
    THEN probe
    ELSE RunProbe(AfterFetch(probe, Head(resps)), Tail(resps))

checkSingleLink(item, resps) == RunProbe(StartProbe(item.url, 0), resps).result

\* the fetch outcomes of one entry in the rebuild specification: reachable,
\* reachable behind a redirect, or answered 404
Outcomes ==
  { <<Response(200)>>,
    <<Redirect(301, <<HTTP, "z">>), Response(200)>>,
    <<Response(404)>> }

\* processLinks run to its return, entry k's fetches settling as chosen[k]
RECURSIVE ValidFrom(_, _, _, _)
ValidFrom(links, chosen, k, valid) ==
  IF k < Len(links)
    THEN ValidFrom(links, chosen, k + 1,
                   ThenValidLinks(valid, At(links, k),
                                  checkSingleLink(At(links, k), chosen[k])))
    ELSE valid

InitRebuild ==
  /\ originalM3uContent \in {join(d) : d \in RebuildDocs}
  /\ linksToProcess = <<>>
  /\ pc = "unparsed"
  /\ i = 0
  /\ probes = <<>>
  /\ activePromises = {}
  /\ awaited = {}
  /\ linksProcessedCount = 0
  /\ tempValidLinks = EmptyMap
  /\ outputM3uContent = NoOutput
  /\ written = FALSE
  /\ submitted = <<>>
  /\ calls = <<>>
  /\ run = NoRun
  /\ scraper = NoScraper
  /\ logo = NoLogo

Parse ==
  /\ pc = "unparsed"
  /\ linksToProcess' = parseM3UContent(originalM3uContent)
  /\ pc' = "parsed"
  /\ UNCHANGED <<originalM3uContent, i, probes, activePromises, awaited,
                 linksProcessedCount, tempValidLinks, outputM3uContent,
                 written, submitted, calls, run>>
  /\ UNCHANGED <<scraper, logo>>

Validate ==
  /\ pc = "parsed"
  /\ \E chosen \in [Entries -> Outcomes] :
       tempValidLinks' = ValidFrom(linksToProcess, chosen, 0, EmptyMap)
  /\ linksProcessedCount' = N
  /\ pc' = "validated"
  /\ UNCHANGED <<originalM3uContent, linksToProcess, i, probes, activePromises,
                 awaited, outputM3uContent, written, submitted, calls, run>>
  /\ UNCHANGED <<scraper, logo>>

Rebuild ==
  /\ pc = "validated"
  /\ outputM3uContent' = generateOutputM3U(originalM3uContent, tempValidLinks)
  /\ pc' = "rebuilt"
  /\ UNCHANGED <<originalM3uContent, linksToProcess, i, probes, activePromises,
                 awaited, linksProcessedCount, tempValidLinks, written,
                 submitted, calls, run>>
  /\ UNCHANGED <<scraper, logo>>

\* main after generateOutputM3U, in the cases in which it calls it (no entry
\* parsed, or at least one valid): the content is written unless it is the
\* header alone
Persist ==
  /\ pc = "rebuilt"
  /\ N = 0 \/ MapSize(tempValidLinks) # 0
  /\ written' = beyondHeader(outputM3uContent)
  /\ pc' = "persisted"
  /\ UNCHANGED <<originalM3uContent, linksToProcess, i, probes, activePromises,
                 awaited, linksProcessedCount, tempValidLinks, outputM3uContent,
                 submitted, calls, run>>
  /\ UNCHANGED <<scraper, logo>>

NextRebuild == Parse \/ Validate \/ Rebuild \/ Persist

SpecRebuild == InitRebuild /\ [][NextRebuild]_vars

-----------------------------------------------------------------------------
(* The parser alone: parseM3UContent applied to every document of up to     *)
(* MaxLines lines over ParseLineValues, which holds lines of free text and  *)
(* references with white space around them or an unrecognised scheme        *)

ParseLineValues ==
  { <<EXTINF, "A">>,
    <<EXTINF, "B">>,
    <<HTTP, "z">>,
    <<Blank, HTTPS, "x", Blank>>,
    <<"ftp://", "y">>,
    <<"free text">>,
    <<"#EXTGRP">>,
    <<>> }

ParseDocs == UNION {[1..n -> ParseLineValues] : n \in 1..MaxLines}

InitParse ==
  /\ originalM3uContent \in {join(d) : d \in ParseDocs}
  /\ linksToProcess = <<>>
  /\ pc = "unparsed"
  /\ i = 0
  /\ probes = <<>>
  /\ activePromises = {}
  /\ awaited = {}
  /\ linksProcessedCount = 0
  /\ tempValidLinks = EmptyMap
  /\ outputM3uContent = NoOutput
  /\ written = FALSE
  /\ submitted = <<>>
  /\ calls = <<>>
  /\ run = NoRun
  /\ scraper = NoScraper
  /\ logo = NoLogo

NextParse == Parse

SpecParse == InitParse /\ [][NextParse]_vars

-----------------------------------------------------------------------------
(* One validation with its timers: the probe specification runs main on a   *)
(* document of one entry, with every fetch outcome of Responses, and keeps  *)
(* in calls the calls of checkSingleLink made for the entry, the recursive  *)
(* ones included, each with the timer it armed and the outcome of its fetch *)

Pending ==
  [kind |-> "pending", status |-> 0, hasLocation |-> FALSE, location |-> NoLocation]

\* const controller = new AbortController();
\* const timeoutId = setTimeout(() => controller.abort(), linkTimeout);
NewCall(url, redirectCount) ==
  [url |-> url, redirectCount |-> redirectCount, timer |-> "armed", resp |-> Pending]

\* mutant of clearTimeout: the timer is left armed
clearTimeoutMissing(timer) == timer

\* clearTimeout(timeoutId): a timer that has fired stays fired
clearTimeout(timer) == IF timer = "armed" THEN "cleared" ELSE timer

ProbeDocs ==
  { << <<EXTM3U>>, <<EXTINF, "A">>, <<HTTP, "a">> >>,
    << <<HTTPS, "z">> >> }

InitProbe ==
  /\ originalM3uContent \in {join(d) : d \in ProbeDocs}
  /\ linksToProcess = <<>>
  /\ pc = "start"
  /\ i = 0
  /\ probes = <<>>
  /\ activePromises = {}
  /\ awaited = {}
  /\ linksProcessedCount = 0
  /\ tempValidLinks = EmptyMap
  /\ outputM3uContent = NoOutput
  /\ written = FALSE
  /\ submitted = <<>>
  /\ calls = <<>>
  /\ run = NoRun
  /\ scraper = NoScraper
  /\ logo = NoLogo

\* main from the end of readFile into processLinks and the first call of
\* checkSingleLink, up to its await fetch(...)
ProbeCall ==
  /\ pc = "start"
  /\ LET links == parseM3UContent(originalM3uContent)
         r == LoopFrom(links, 0,
                       [probes |-> [e \in 0..(Len(links) - 1) |-> IdleProbe],
                        activePromises |-> {},
                        submitted |-> [e \in 0..(Len(links) - 1) |-> 0]])
     IN  /\ linksToProcess' = links
         /\ pc' = r.pc
         /\ i' = r.i
         /\ probes' = r.st.probes
         /\ activePromises' = r.st.activePromises
         /\ awaited' = r.st.activePromises
         /\ submitted' = r.st.submitted
         /\ calls' = <<NewCall(r.st.probes[0].url, r.st.probes[0].redirectCount)>>
  /\ UNCHANGED <<originalM3uContent, linksProcessedCount, tempValidLinks,
                 outputM3uContent, written, run>>
  /\ UNCHANGED <<scraper, logo>>

\* the timer of call k fires: () => controller.abort()
ProbeTimerFires(k) ==
  /\ calls[k].timer = "armed"
  /\ calls' = [calls EXCEPT ![k].timer = "fired"]
  /\ UNCHANGED <<originalM3uContent, linksToProcess, pc, i, probes,
                 activePromises, awaited, linksProcessedCount, tempValidLinks,
                 outputM3uContent, written, submitted, run>>
  /\ UNCHANGED <<scraper, logo>>

\* mutant of ProbeFetchSettles: the redirect target is written into the
\* entry itself (item.url = absoluteRedirectUrl) instead of a copy
ProbeFetchSettlesInPlace(resp) ==
  /\ calls # <<>>
  /\ probes[0].phase = "fetching"
  /\ LET h == Len(calls)
         after == AfterFetch(probes[0], resp)
         settled == [calls EXCEPT ![h].resp = resp,
                                  ![h].timer = clearTimeout(calls[h].timer)]
     IN  /\ (calls[h].timer = "fired") <=> (resp.kind = "abort")
         /\ probes' = [probes EXCEPT ![0] = after]
         /\ calls' = IF after.phase = "fetching"
                       THEN Append(settled, NewCall(after.url, after.redirectCount))
                       ELSE settled
         /\ linksToProcess' = IF after.phase = "fetching"
                                THEN [linksToProcess EXCEPT ![1].url = after.url]
                                ELSE linksToProcess
  /\ UNCHANGED <<originalM3uContent, pc, i, activePromises,
                 awaited, linksProcessedCount, tempValidLinks,
                 outputM3uContent, written, submitted, run>>
  /\ UNCHANGED <<scraper, logo>>

\* mutant of ProbeFetchSettles: the catch block does not clear the timer
ProbeFetchSettlesNoClearInCatch(resp) ==
  /\ calls # <<>>
  /\ probes[0].phase = "fetching"
  /\ LET h == Len(calls)
         after == AfterFetch(probes[0], resp)
         settled == [calls EXCEPT ![h].resp = resp,
                                  ![h].timer = IF resp.kind = "response"
                                                 THEN clearTimeout(calls[h].timer)
                                                 ELSE calls[h].timer]
     IN  /\ (calls[h].timer = "fired") <=> (resp.kind = "abort")
         /\ probes' = [probes EXCEPT ![0] = after]
         /\ calls' = IF after.phase = "fetching"
                       THEN Append(settled, NewCall(after.url, after.redirectCount))
                       ELSE settled
  /\ UNCHANGED <<originalM3uContent, linksToProcess, pc, i, activePromises,
                 awaited, linksProcessedCount, tempValidLinks,
                 outputM3uContent, written, submitted, run>>
  /\ UNCHANGED <<scraper, logo>>

\* the fetch of the last call settles and checkSingleLink runs on: the
\* fetch is rejected with an AbortError exactly when the call's controller
\* has been aborted
ProbeFetchSettles(resp) ==
  /\ calls # <<>>
  /\ probes[0].phase = "fetching"
  /\ LET h == Len(calls)
         after == AfterFetch(probes[0], resp)
         settled == [calls EXCEPT ![h].resp = resp,
                                  ![h].timer = clearTimeout(calls[h].timer)]
     IN  /\ (calls[h].timer = "fired") <=> (resp.kind = "abort")
         /\ probes' = [probes EXCEPT ![0] = after]
         /\ calls' = IF after.phase = "fetching"
                       THEN Append(settled, NewCall(after.url, after.redirectCount))
                       ELSE settled
  /\ UNCHANGED <<originalM3uContent, linksToProcess, pc, i, activePromises,
                 awaited, linksProcessedCount, tempValidLinks,
                 outputM3uContent, written, submitted, run>>
  /\ UNCHANGED <<scraper, logo>>

NextProbe ==
  \/ ProbeCall
  \/ \E k \in 1..Len(calls) : ProbeTimerFires(k)
  \/ \E resp \in Responses : ProbeFetchSettles(resp)
  \/ \E e \in Entries : ThenCallback(e)
  \/ AllSettledResume
  \/ MainAfterCheck

SpecProbe == InitProbe /\ [][NextProbe]_vars

-----------------------------------------------------------------------------
(* The run over several files: main's for loop, each file readable or not   *)
(* and its destination writable or not; the validation of a file's entries  *)
(* is taken as one step, its fetches settling as chosen                     *)

MaxFiles == 2

RunDocs ==
  { << <<EXTM3U>> >>,
    << <<HTTP, "z">> >>,
    << <<"#EXTGRP">>, <<HTTPS, "x">> >> }

RunFiles == [content : {join(d) : d \in RunDocs}, readable : BOOLEAN, writable : BOOLEAN]

InitRun ==
  /\ scraper = NoScraper
  /\ logo = NoLogo
  /\ run \in {[files |-> f, index |-> 0, handled |-> {}, persisted |-> {}, exitCode |-> 0] :
                f \in UNION {[1..n -> RunFiles] : n \in 1..MaxFiles}}
  /\ originalM3uContent = <<>>
  /\ linksToProcess = <<>>
  /\ pc = "nextFile"
  /\ i = 0
  /\ probes = <<>>
  /\ activePromises = {}
  /\ awaited = {}
  /\ linksProcessedCount = 0
  /\ tempValidLinks = EmptyMap
  /\ outputM3uContent = NoOutput
  /\ written = FALSE
  /\ submitted = <<>>
  /\ calls = <<>>

\* catch (error) { console.error(...); process.exit(1); }
exitOnError(r) == [r EXCEPT !.exitCode = 1]

\* the head of the loop body: await fs.readFile(fullPath, 'utf8'), which
\* throws into main's catch when the file cannot be read
RunReadFile ==
  /\ pc = "nextFile"
  /\ run.index < Len(run.files)
  /\ LET file == At(run.files, run.index)
         started == [run EXCEPT !.handled = @ \cup {run.index}]
     IN  IF file.readable
           THEN /\ originalM3uContent' = file.content
                /\ pc' = "read"
                /\ run' = started
           ELSE /\ pc' = "exited"
                /\ run' = exitOnError(started)
                /\ UNCHANGED originalM3uContent
  /\ linksToProcess' = <<>>
  /\ linksProcessedCount' = 0
  /\ tempValidLinks' = EmptyMap
  /\ outputM3uContent' = NoOutput
  /\ written' = FALSE
  /\ UNCHANGED <<i, probes, activePromises, awaited, submitted, calls>>
  /\ UNCHANGED <<scraper, logo>>

\* the loop body from parseM3UContent to the decision to write: the file is
\* skipped (continue) or its rebuilt content goes to writeFile
RunCheckFile ==
  /\ pc = "read"
  /\ LET links == parseM3UContent(originalM3uContent) IN
     \E chosen \in [0..(Len(links) - 1) -> Outcomes] :
       LET valid == ValidFrom(links, chosen, 0, EmptyMap)
           rebuilds == Len(links) = 0 \/ MapSize(valid) # 0
           out == generateOutputM3U(originalM3uContent, valid)
           writes == rebuilds /\ beyondHeader(out)
       IN  /\ linksToProcess' = links
           /\ linksProcessedCount' = Len(links)
           /\ tempValidLinks' = valid
           /\ outputM3uContent' = IF rebuilds THEN out ELSE NoOutput
           /\ pc' = IF writes THEN "writing" ELSE "nextFile"
           /\ run' = IF writes THEN run ELSE [run EXCEPT !.index = @ + 1]
  /\ UNCHANGED <<originalM3uContent, i, probes, activePromises, awaited,
                 written, submitted, calls>>
  /\ UNCHANGED <<scraper, logo>>

\* await fs.writeFile(outputPath, outputM3uContent, 'utf8'), which throws
\* into main's catch when the destination cannot be written
RunWriteFile ==
  /\ pc = "writing"
  /\ IF At(run.files, run.index).writable
       THEN /\ written' = TRUE
            /\ pc' = "nextFile"
            /\ run' = [run EXCEPT !.persisted = @ \cup {run.index}, !.index = @ + 1]
       ELSE /\ pc' = "exited"
            /\ run' = exitOnError(run)
            /\ UNCHANGED written
  /\ UNCHANGED <<originalM3uContent, linksToProcess, i, probes, activePromises,
                 awaited, linksProcessedCount, tempValidLinks, outputM3uContent,
                 submitted, calls>>
  /\ UNCHANGED <<scraper, logo>>

\* the loop is over: main returns
RunEnd ==
  /\ pc = "nextFile"
  /\ run.index = Len(run.files)
  /\ pc' = "allDone"
  /\ UNCHANGED <<originalM3uContent, linksToProcess, i, probes, activePromises,
                 awaited, linksProcessedCount, tempValidLinks, outputM3uContent,
                 written, submitted, calls, run>>
  /\ UNCHANGED <<scraper, logo>>

NextRun == RunReadFile \/ RunCheckFile \/ RunWriteFile \/ RunEnd

SpecRun == InitRun /\ [][NextRun]_vars

-----------------------------------------------------------------------------
(* Several files with the executor at work: main's for loop over readable   *)
(* files, each handled by the steps of the one-document specification; the  *)
(* step to the next file gives processLinks its fresh local state           *)

SeqDocs ==
  { << <<EXTM3U>> >>,
    << <<HTTP, "a">>, <<HTTP, "b">>, <<HTTP, "c">> >> }

SeqFiles == [content : {join(d) : d \in SeqDocs}, readable : {TRUE}, writable : {TRUE}]

SeqResponses == {Response(200), Response(404)}

InitSeq ==
  /\ scraper = NoScraper
  /\ logo = NoLogo
  /\ run \in {[files |-> f, index |-> 0, handled |-> {}, persisted |-> {}, exitCode |-> 0] :
                f \in [1..MaxFiles -> SeqFiles]}
  /\ originalM3uContent = At(run.files, 0).content
  /\ linksToProcess = <<>>
  /\ pc = "start"
  /\ i = 0
  /\ probes = <<>>
  /\ activePromises = {}
  /\ awaited = {}
  /\ linksProcessedCount = 0
  /\ tempValidLinks = EmptyMap
  /\ outputM3uContent = NoOutput
  /\ written = FALSE
  /\ submitted = <<>>
  /\ calls = <<>>

\* mutant of SeqNextFile: main goes on to the next file while processLinks
\* still waits for its promises
SeqNextFileNotAwaited ==
  /\ pc \in {"fileDone", "allSettled"}
  /\ run.index + 1 < Len(run.files)
  /\ run' = [run EXCEPT !.index = @ + 1,
                        !.handled = @ \cup {run.index},
                        !.persisted = IF written THEN @ \cup {run.index} ELSE @]
  /\ originalM3uContent' = At(run.files, run.index + 1).content
  /\ pc' = "start"
  /\ linksToProcess' = <<>>
  /\ i' = 0
  /\ probes' = <<>>
  /\ activePromises' = {}
  /\ awaited' = {}
  /\ linksProcessedCount' = 0
  /\ tempValidLinks' = EmptyMap
  /\ outputM3uContent' = NoOutput
  /\ written' = FALSE
  /\ submitted' = <<>>
  /\ UNCHANGED calls
  /\ UNCHANGED <<scraper, logo>>

\* the end of the loop body (or a continue) and the head of the next
\* iteration: the next file is read
SeqNextFile ==
  /\ pc = "fileDone"
  /\ run.index + 1 < Len(run.files)
  /\ run' = [run EXCEPT !.index = @ + 1,
                        !.handled = @ \cup {run.index},
                        !.persisted = IF written THEN @ \cup {run.index} ELSE @]
  /\ originalM3uContent' = At(run.files, run.index + 1).content
  /\ pc' = "start"
  /\ linksToProcess' = <<>>
  /\ i' = 0
  /\ probes' = <<>>
  /\ activePromises' = {}
  /\ awaited' = {}
  /\ linksProcessedCount' = 0
  /\ tempValidLinks' = EmptyMap
  /\ outputM3uContent' = NoOutput
  /\ written' = FALSE
  /\ submitted' = <<>>
  /\ UNCHANGED calls
  /\ UNCHANGED <<scraper, logo>>

NextSeq ==
  \/ MainRead
  \/ \E e \in Entries : \E resp \in SeqResponses : FetchSettles(e, resp)
  \/ \E e \in Entries : ThenCallback(e)
  \/ RaceResume
  \/ AllSettledResume
  \/ MainAfterCheck
  \/ SeqNextFile

SpecSeq == InitSeq /\ [][NextSeq]_vars

-----------------------------------------------------------------------------
(* Properties of processLinks *)

\* validations launched whose completion callback has not run
InFlight == {e \in DOMAIN probes : probes[e].phase \in {"fetching", "resolved"}}
Done == {e \in DOMAIN probes : probes[e].phase = "done"}
Failed == {e \in DOMAIN probes :
             probes[e].phase \in {"resolved", "done"} /\ probes[e].result.status # "200"}
processLinksReturned == N > 0 /\ pc \in {"returned", "fileDone"}

\* C1: at most concurrencyLimit validations are in flight in every state
C1_AtMostLimitInFlight == Cardinality(InFlight) <= concurrencyLimit

\* the pool is full while entries are still queued
C1_Witness ==
  /\ pc = "race"
  /\ Cardinality(InFlight) = concurrencyLimit
  /\ i + 1 < N

\* C2: when processLinks has returned, and so whenever generateOutputM3U has
\* read tempValidLinks, every entry's callback has run and none is in flight
C2_ReturnsAfterAllResolved ==
  processLinksReturned =>
    /\ Done = Entries
    /\ InFlight = {}
    /\ linksProcessedCount = N
    /\ activePromises = {}

\* processLinks has returned from a document with more entries than the pool
C2_Witness == pc = "returned" /\ N > concurrencyLimit /\ outputM3uContent = NoOutput

\* C3: in every state tempValidLinks holds exactly the entries whose callback
\* has run with a 200 result, each under its own position with its own
\* metadata line and the final URI of its own result; in particular the
\* returned map is a function of the outcomes, not of the completion order
ReachableDone == {e \in Done : probes[e].result.status = "200"}
C3_ValidatedSetIsReachableSet ==
  /\ DOMAIN tempValidLinks = {At(linksToProcess, e).originalIndex : e \in ReachableDone}
  /\ \A e \in ReachableDone :
       tempValidLinks[At(linksToProcess, e).originalIndex] =
         [titleLine |-> At(linksToProcess, e).title,
          urlLine |-> probes[e].result.finalUrl]

\* returned with a redirected reachable entry, a directly reachable one and
\* a failed one
C3_Witness ==
  /\ processLinksReturned
  /\ \E e, f, g \in Entries :
       /\ probes[e].result.status = "200"
       /\ probes[e].result.finalUrl # At(linksToProcess, e).url
       /\ probes[f].result.status = "200"
       /\ probes[f].result.finalUrl = At(linksToProcess, f).url
       /\ probes[g].result.status # "200"

\* C4: no entry is submitted twice, an entry has been submitted exactly when
\* its validation has started, and at the return every entry has been
\* submitted exactly once, the failed ones included
C4_SubmittedExactlyOnce ==
  /\ \A e \in DOMAIN submitted :
       /\ submitted[e] <= 1
       /\ submitted[e] = 1 <=> probes[e].phase # "idle"
  /\ processLinksReturned => \A e \in Entries : submitted[e] = 1

\* returned from a run in which an entry failed while entries were queued
C4_Witness ==
  /\ processLinksReturned
  /\ N > concurrencyLimit
  /\ \E e \in Entries : e < concurrencyLimit /\ probes[e].result.status # "200"

\* C5: while processLinks waits with a full pool and entries queued, a single
\* completion lets it resume, and resuming starts the next queued entry and
\* leaves the rest of the pool as it is
C5_RefillsOnFirstCompletion ==
  (pc = "race" /\ i + 1 < N /\ \E e \in awaited : probes[e].phase = "done") =>
    ENABLED (/\ RaceResume
             /\ probes'[i + 1].phase = "fetching"
             /\ \A e \in awaited : probes'[e] = probes[e])

\* one completion, the other concurrencyLimit - 1 validations still in flight
C5_Witness ==
  /\ pc = "race"
  /\ i + 1 < N
  /\ Cardinality({e \in awaited : probes[e].phase = "done"}) = 1
  /\ Cardinality({e \in awaited : probes[e].phase = "fetching"}) = concurrencyLimit - 1
  /\ concurrencyLimit > 1

\* C6: a step in which an entry fails (its probe ends in a bad status, a
\* timeout or a transport error, or its callback runs on such a result)
\* changes no other entry, neither in flight nor queued, nor main's position
\* nor tempValidLinks; once an entry has failed the run is never stuck short
\* of its end; and at the return every entry has resolved with a result
failsIn(e) ==
  /\ \/ probes[e].phase = "fetching" /\ probes'[e].phase = "resolved"
     \/ probes[e].phase = "resolved" /\ probes'[e].phase = "done"
  /\ probes'[e].result.status # "200"
canProceed ==
  \/ pc = "fileDone"
  \/ pc = "returned"
  \/ InFlight # {}
  \/ pc = "race" /\ \E e \in awaited : probes[e].phase = "done"
  \/ pc = "allSettled" /\ \A e \in awaited : probes[e].phase = "done"
allResolved ==
  \A e \in Entries : probes[e].phase = "done" /\ probes[e].result.status # "none"
C6_NoCrossEntryCancellation ==
  [][/\ \A e \in DOMAIN probes :
          failsIn(e) =>
            /\ \A f \in DOMAIN probes \ {e} : probes'[f] = probes[f]
            /\ pc' = pc
            /\ tempValidLinks' = tempValidLinks
     /\ (Failed # {})' => canProceed'
     /\ (Failed # {} /\ processLinksReturned)' => allResolved']_vars

\* an entry failed, and a sibling that was in flight with it, and one queued
\* behind it, came out reachable
C6_Witness ==
  /\ pc = "fileDone"
  /\ N > concurrencyLimit
  /\ probes[0].result.status \in {"timedout", "invalid", "404"}
  /\ probes[1].result.status = "200"
  /\ probes[N - 1].result.status = "200"

-----------------------------------------------------------------------------
(* Properties of generateOutputM3U *)

rebuilt == pc = "rebuilt"
Range(s) == {s[k] : k \in 1..Len(s)}
outLines == split(outputM3uContent)
finalUrls == {tempValidLinks[k].urlLine : k \in DOMAIN tempValidLinks}
validTitles == {tempValidLinks[k].titleLine : k \in DOMAIN tempValidLinks}

\* C7: in the output every #EXTINF line is immediately followed by a
\* resource line
C7_NoOrphanMetadata ==
  rebuilt =>
    \A k \in 1..Len(outLines) :
      startsWith(outLines[k], EXTINF) =>
        k < Len(outLines) /\ isUrl(outLines[k + 1])

\* C8: no line value occurs twice in the output
C8_NoDuplicateLines ==
  rebuilt =>
    \A j, k \in 1..Len(outLines) : j # k => outLines[j] # outLines[k]

\* two validated entries share a final URI, which is in the output, and the
\* document repeats a line that is neither a marker nor a reference
C8_Witness ==
  /\ rebuilt
  /\ \E j, k \in DOMAIN tempValidLinks :
       /\ j # k
       /\ tempValidLinks[j].urlLine = tempValidLinks[k].urlLine
       /\ tempValidLinks[j].urlLine \in Range(outLines)
  /\ \E j, k \in 1..Len(split(originalM3uContent)) :
       /\ j # k
       /\ trim(split(originalM3uContent)[j]) = <<"#EXTGRP">>
       /\ trim(split(originalM3uContent)[k]) = <<"#EXTGRP">>

\* C9: every resource line of the output is the final URI of a validated
\* entry and every #EXTINF line of the output is the metadata line of a
\* validated entry; so an entry that is not validated puts no line of its
\* own in the output
C9_OnlyValidatedEntries ==
  rebuilt =>
    \A k \in 1..Len(outLines) :
      /\ isUrl(outLines[k]) => outLines[k] \in finalUrls
      /\ startsWith(outLines[k], EXTINF) => outLines[k] \in validTitles

\* a validated entry is in the output, and beside it the document holds an
\* entry with a metadata line that failed, neither line of which is in the
\* output
C9_Witness ==
  /\ rebuilt
  /\ \E e, f \in Entries :
       /\ Has(tempValidLinks, At(linksToProcess, e).originalIndex)
       /\ tempValidLinks[At(linksToProcess, e).originalIndex].urlLine \in Range(outLines)
       /\ ~Has(tempValidLinks, At(linksToProcess, f).originalIndex)
       /\ At(linksToProcess, f).originalTitleLineIndex = At(linksToProcess, f).originalIndex - 1
       /\ At(linksToProcess, f).title \notin Range(outLines)
       /\ At(linksToProcess, f).url \notin Range(outLines)

\* C10: for every validated entry that has a metadata line, the output holds
\* that metadata line immediately followed by the entry's final URI
C10_PairPerSurvivingEntry ==
  rebuilt =>
    \A p \in DOMAIN tempValidLinks :
      tempValidLinks[p].titleLine # <<>> =>
        \E k \in 1..(Len(outLines) - 1) :
          /\ outLines[k] = tempValidLinks[p].titleLine
          /\ outLines[k + 1] = tempValidLinks[p].urlLine

-----------------------------------------------------------------------------
(* Properties of checkSingleLink, over the calls made for one entry *)

lastCall == calls[Len(calls)]
isRedirectResponse(resp) ==
  resp.kind = "response" /\ resp.status \in 300..399 /\ resp.hasLocation
locationOf(call) ==
  IF call.resp.location[1] \in {HTTP, HTTPS}
    THEN call.resp.location
    ELSE <<call.url[1], call.url[2]>> \o call.resp.location
probeIsResolved == calls # <<>> /\ probes[0].phase \in {"resolved", "done"}
outcome == probes[0].result

\* C11: a 3xx response with a location header received while the redirect
\* count is below maxRedirects makes checkSingleLink probe the location,
\* resolved against the URL just probed, with the count one higher; when a
\* later probe answers 200 the result carries the URL probed last, and the
\* map of valid links and the rebuilt playlist hold that URL, not the original
C11_RedirectFollowedToFinalUri ==
  /\ \A k \in 1..Len(calls) :
       ( /\ isRedirectResponse(calls[k].resp)
         /\ calls[k].redirectCount < maxRedirects
         /\ Len(locationOf(calls[k])) > 1 )
       => /\ k < Len(calls)
          /\ calls[k + 1].url = locationOf(calls[k])
          /\ calls[k + 1].redirectCount = calls[k].redirectCount + 1
  /\ ( /\ calls # <<>>
       /\ lastCall.resp.kind = "response"
       /\ lastCall.resp.status = 200 )
     => /\ probeIsResolved
        /\ outcome.status = "200"
        /\ outcome.finalUrl = lastCall.url
        /\ linksProcessedCount = 1 =>
             /\ DOMAIN tempValidLinks = {At(linksToProcess, 0).originalIndex}
             /\ finalUrls = {lastCall.url}
        /\ pc = "fileDone" =>
             /\ lastCall.url \in Range(outLines)
             /\ \A k \in 1..Len(calls) :
                  calls[k].url # lastCall.url => calls[k].url \notin Range(outLines)

\* a 301 to a relative location was followed, the next probe answered 200 and
\* the playlist was rebuilt with the resolved URL
C11_Witness ==
  /\ pc = "fileDone"
  /\ Len(calls) > 1
  /\ calls[1].resp.location = <<"/p">>
  /\ lastCall.resp.status = 200
  /\ lastCall.url # calls[1].url
  /\ lastCall.url \in Range(outLines)

lastStatusIn(S) ==
  calls # <<>> /\ lastCall.resp.kind = "response" /\ lastCall.resp.status \in S
entryIndex == At(linksToProcess, 0).originalIndex
callbackRan == linksProcessedCount = 1

\* C12 as stated: a response with any status in 200..299 gives a result
\* carrying the probed URL, and processLinks puts the entry in the map of
\* valid links
C12_Any2xxReachable ==
  lastStatusIn(200..299)
  => /\ probeIsResolved
     /\ outcome.finalUrl = lastCall.url
     /\ callbackRan => Has(tempValidLinks, entryIndex)

\* C12 amended: only status 200 gives a result carrying the probed URL and
\* an entry in the map of valid links; every other 2xx status (204) gives a
\* result with that status and no final URL, and the entry is not put in
\* the map
C12_Only200Reachable ==
  /\ lastStatusIn({200})
     => /\ probeIsResolved
        /\ outcome.status = "200"
        /\ outcome.finalUrl = lastCall.url
        /\ callbackRan => Has(tempValidLinks, entryIndex)
  /\ lastStatusIn(201..299)
     => /\ probeIsResolved
        /\ outcome.status = ToString(lastCall.resp.status)
        /\ outcome.finalUrl = <<>>
        /\ tempValidLinks = EmptyMap
  /\ tempValidLinks # EmptyMap => lastStatusIn({200})

\* main has finished on an entry whose probe answered 204: nothing is valid
\* and nothing is written
C12_Witness ==
  /\ pc = "fileDone"
  /\ lastStatusIn({204})
  /\ tempValidLinks = EmptyMap
  /\ ~written

isSettled(call) == call.resp.kind # "pending"

\* C13: one validation of an entry makes at most maxRedirects + 1 calls of
\* fetch, whatever the chain of redirects (a cycle included): call k runs
\* with redirect count k - 1, only a 3xx response with a location received
\* below the limit is followed by another call, and the first response that
\* is not such a redirect, or any outcome of the call made at redirect count
\* maxRedirects, ends the validation with a result
C13_RedirectsBounded ==
  /\ Len(calls) <= maxRedirects + 1
  /\ \A k \in 1..Len(calls) :
       /\ calls[k].redirectCount = k - 1
       /\ k < Len(calls) =>
            isRedirectResponse(calls[k].resp) /\ calls[k].redirectCount < maxRedirects
  /\ ( /\ calls # <<>>
       /\ isSettled(lastCall)
       /\ \/ ~isRedirectResponse(lastCall.resp)
          \/ lastCall.redirectCount = maxRedirects )
     => probeIsResolved /\ outcome.status # "none"
  /\ (calls # <<>> /\ ~isSettled(lastCall)) => probes[0].phase = "fetching"

\* a cycle of redirects (the location resolves to the URL just probed) was
\* followed maxRedirects times and the validation has ended on the last 3xx
C13_Witness ==
  /\ Len(calls) = maxRedirects + 1
  /\ calls[maxRedirects].url = lastCall.url
  /\ isRedirectResponse(lastCall.resp)
  /\ probes[0].phase = "done"
  /\ outcome.status = "301"

\* C14: the redirect received at redirect count maxRedirects - 1 is still
\* followed, so its target is probed at count maxRedirects; whatever that
\* probe answers, a further 3xx included, is the result: status 200 gives
\* the result carrying that URL, any other status gives that status code,
\* and hitting the limit alone never gives "timedout" or "invalid"
C14_LimitHopDecides ==
  /\ \A k \in 1..Len(calls) :
       ( /\ isRedirectResponse(calls[k].resp)
         /\ calls[k].redirectCount = maxRedirects - 1
         /\ Len(locationOf(calls[k])) > 1 )
       => /\ k < Len(calls)
          /\ calls[k + 1].url = locationOf(calls[k])
          /\ calls[k + 1].redirectCount = maxRedirects
  /\ ( /\ Len(calls) = maxRedirects + 1
       /\ lastCall.resp.kind = "response" )
     => /\ probeIsResolved
        /\ outcome.url = lastCall.url
        /\ outcome.status \notin {"timedout", "invalid"}
        /\ IF lastCall.resp.status = 200
             THEN outcome.status = "200" /\ outcome.finalUrl = lastCall.url
             ELSE outcome.status = ToString(lastCall.resp.status)

\* main has finished on a chain longer than maxRedirects: the probe of the
\* last followed target answered 3xx again and that status is the result
C14_Witness ==
  /\ pc = "fileDone"
  /\ Len(calls) = maxRedirects + 1
  /\ lastCall.redirectCount = maxRedirects
  /\ isRedirectResponse(lastCall.resp)
  /\ outcome.status = ToString(lastCall.resp.status)
  /\ ~written

\* C15: each call of checkSingleLink arms its own timer, and the timer of a
\* call is cleared when its fetch settles, before the next call is made; so
\* every call but the last has a cleared timer, a timer that has fired
\* belongs to the last call and that call's fetch is the one aborted, the
\* result is "timedout" only when the last call's own timer fired, and a
\* chain whose every fetch was answered never gives "timedout"
C15_TimeoutPerAttempt ==
  /\ \A k \in 1..Len(calls) :
       /\ k < Len(calls) => calls[k].timer = "cleared"
       /\ isSettled(calls[k]) => calls[k].timer \in {"cleared", "fired"}
       /\ ~isSettled(calls[k]) => calls[k].timer \in {"armed", "fired"}
       /\ calls[k].timer = "fired" => k = Len(calls)
       /\ calls[k].resp.kind = "abort" <=> (isSettled(calls[k]) /\ calls[k].timer = "fired")
  /\ (probeIsResolved /\ outcome.status = "timedout")
     => lastCall.timer = "fired" /\ lastCall.resp.kind = "abort"
  /\ (probeIsResolved /\ \A k \in 1..Len(calls) : calls[k].resp.kind = "response")
     => outcome.status # "timedout"

\* a chain of maxRedirects redirects, each answered before its timer fired,
\* has ended on a 200 with every timer cleared
C15_Witness ==
  /\ Len(calls) = maxRedirects + 1
  /\ \A k \in 1..Len(calls) : calls[k].timer = "cleared"
  /\ probeIsResolved
  /\ outcome.status = "200"

\* the timer of the second call fired: the result is "timedout" although
\* the first call was answered
C15_TimedOutOnLaterHop ==
  /\ Len(calls) = 2
  /\ calls[1].timer = "cleared"
  /\ calls[2].timer = "fired"
  /\ probeIsResolved
  /\ outcome.status = "timedout"

unresolvableRedirect(call) ==
  /\ isRedirectResponse(call.resp)
  /\ call.redirectCount < maxRedirects
  /\ Len(locationOf(call)) <= 1

\* C16: the promise of checkSingleLink is never rejected; once the fetch of
\* the last call has settled without being followed the call has resolved
\* with one result for the URL of that call: "timedout" when the fetch was
\* aborted by the call's timer, "invalid" when the fetch failed or the
\* location of a redirect to follow cannot be resolved, the status code
\* when the response is not 200 and is not followed, and otherwise 200 with
\* the final URL
C16_AlwaysResolvesWithOneOutcome ==
  /\ calls # <<>> => probes[0].phase \in {"fetching", "resolved", "done"}
  /\ (calls # <<>> /\ probes[0].phase = "fetching") => ~isSettled(lastCall)
  /\ (calls # <<>> /\ isSettled(lastCall))
     => /\ probeIsResolved
        /\ outcome.url = lastCall.url
        /\ outcome.status =
             IF lastCall.resp.kind = "abort" THEN "timedout"
             ELSE IF lastCall.resp.kind = "error" THEN "invalid"
             ELSE IF unresolvableRedirect(lastCall) THEN "invalid"
             ELSE ToString(lastCall.resp.status)
        /\ outcome.finalUrl # <<>> <=> outcome.status = "200"

\* main has finished on an entry whose redirect named a location that
\* cannot be resolved: the result is "invalid" and nothing was thrown
C16_Witness ==
  /\ pc = "fileDone"
  /\ unresolvableRedirect(lastCall)
  /\ outcome.status = "invalid"
  /\ callbackRan

-----------------------------------------------------------------------------
(* Properties of generateOutputM3U as a function of the document and the   *)
(* map of valid links                                                      *)

docLines == [k \in 1..Len(split(originalM3uContent)) |-> trim(split(originalM3uContent)[k])]
distinctLines(lines) == \A j, k \in 1..Len(lines) : j # k => lines[j] # lines[k]
pairsOnly(lines) ==
  LET body == IF Len(lines) > 0 /\ lines[1] = <<EXTM3U>> THEN Tail(lines) ELSE lines
  IN  /\ Len(body) > 0
      /\ Len(body) % 2 = 0
      /\ \A k \in 1..Len(body) :
           IF k % 2 = 1 THEN startsWith(body[k], EXTINF) ELSE isUrl(body[k])
isValidated(link) == Has(tempValidLinks, link.originalIndex)

\* the metadata line and final URI of every validated entry, in the order
\* of the entries
RECURSIVE pairsOfValidated(_)
pairsOfValidated(links) ==
  IF links = <<>>
    THEN <<>>
    ELSE ( IF isValidated(Head(links))
             THEN << tempValidLinks[Head(links).originalIndex].titleLine,
                     tempValidLinks[Head(links).originalIndex].urlLine >>
             ELSE <<>> )
         \o pairsOfValidated(Tail(links))

\* C17: for a document made of #EXTINF + URL pairs (after an optional
\* header) whose line values are all distinct, the output is the header
\* followed by the metadata line and final URI of each validated entry, in
\* the original order, and nothing else
C17_ExactlyValidatedPairs ==
  (rebuilt /\ pairsOnly(docLines) /\ distinctLines(docLines))
  => outLines = <<<<EXTM3U>>>> \o pairsOfValidated(linksToProcess)

resourceCount(lines) == Cardinality({k \in 1..Len(lines) : isUrl(lines[k])})
allValidated ==
  DOMAIN tempValidLinks = {At(linksToProcess, e).originalIndex : e \in Entries}

\* C18 as stated: rebuilt with every parsed entry validated, the output has
\* as many resource lines as the document
C18_SameResourceCount ==
  (rebuilt /\ allValidated) => resourceCount(outLines) = resourceCount(docLines)

\* C18 amended: rebuilt with every parsed entry validated, the output has
\* one resource line for each distinct final URI of the entries; that is
\* the document's number of resource lines exactly when the final URIs are
\* pairwise distinct
C18_OneResourceLinePerFinalUri ==
  (rebuilt /\ allValidated)
  => /\ resourceCount(outLines) = Cardinality(finalUrls)
     /\ {outLines[k] : k \in {j \in 1..Len(outLines) : isUrl(outLines[j])}} = finalUrls
     /\ resourceCount(docLines) = N
     /\ resourceCount(outLines) = resourceCount(docLines)
          <=> Cardinality(finalUrls) = N

\* every entry of a document with two different resource lines is
\* validated, one behind a redirect to the other's URI: the output has one
\* resource line
C18_Witness ==
  /\ rebuilt
  /\ allValidated
  /\ N = 2
  /\ At(linksToProcess, 0).url # At(linksToProcess, 1).url
  /\ Cardinality(finalUrls) = 1
  /\ resourceCount(outLines) = 1

isOtherLine(line) ==
  /\ Len(line) > 0
  /\ ~startsWith(line, EXTM3U)
  /\ ~startsWith(line, EXTINF)
  /\ ~isUrl(line)

\* the lines of the document that are no header, no #EXTINF line, no URL
\* and not empty, each at its first occurrence, in order
RECURSIVE firstOtherLines(_, _)
firstOtherLines(lines, seen) ==
  IF lines = <<>>
    THEN <<>>
    ELSE IF isOtherLine(Head(lines)) /\ Head(lines) \notin seen
      THEN <<Head(lines)>> \o firstOtherLines(Tail(lines), seen \cup {Head(lines)})
      ELSE firstOtherLines(Tail(lines), seen)

\* C19 as stated: with no validated entry the output is the header line and
\* nothing else
C19_HeaderOnly ==
  (rebuilt /\ tempValidLinks = EmptyMap) => outLines = <<<<EXTM3U>>>>

\* C19 amended: with no validated entry the output is the header line
\* followed by the document's other non-empty lines (no header, no #EXTINF
\* line, no URL), each once, in order; it has no #EXTINF line and no
\* resource line, and it is the header alone exactly when the document has
\* no such other line
C19_HeaderAndOtherLines ==
  (rebuilt /\ tempValidLinks = EmptyMap)
  => /\ outLines = <<<<EXTM3U>>>> \o firstOtherLines(docLines, {})
     /\ \A k \in 1..Len(outLines) :
          ~startsWith(outLines[k], EXTINF) /\ ~isUrl(outLines[k])
     /\ outLines = <<<<EXTM3U>>>>
          <=> \A k \in 1..Len(docLines) : ~isOtherLine(docLines[k])

\* a document with an entry and an #EXTGRP line is rebuilt after its entry
\* failed: the output is the header and the #EXTGRP line
C19_Witness ==
  /\ rebuilt
  /\ N > 0
  /\ tempValidLinks = EmptyMap
  /\ outLines = << <<EXTM3U>>, <<"#EXTGRP">> >>

headerCount(lines) == Cardinality({k \in 1..Len(lines) : startsWith(lines[k], EXTM3U)})

\* C20: the output begins with the line #EXTM3U and no other line of it
\* starts with #EXTM3U, whether the document has no header, one, several,
\* or one that is not its first line
C20_HeaderFirstAndOnce ==
  rebuilt =>
    /\ Len(outLines) >= 1
    /\ outLines[1] = <<EXTM3U>>
    /\ headerCount(outLines) = 1

\* a document with two header lines, neither on its first line, and a
\* validated entry has been rebuilt
C20_Witness ==
  /\ rebuilt
  /\ headerCount(docLines) = 2
  /\ ~startsWith(docLines[1], EXTM3U)
  /\ tempValidLinks # EmptyMap
  /\ Len(outLines) > 1

\* a document without a header line has been rebuilt
C20_NoHeaderRebuilt ==
  rebuilt /\ headerCount(docLines) = 0 /\ tempValidLinks # EmptyMap

rawLines == split(originalM3uContent)
occurrences(lines, line) == Cardinality({k \in 1..Len(lines) : lines[k] = line})

\* C21 as stated: every non-empty line of the document that is no header,
\* no #EXTINF line and no URL is in the output character for character
C21_OtherLinesVerbatim ==
  rebuilt =>
    \A k \in 1..Len(rawLines) :
      (Len(rawLines[k]) > 0 /\ isOtherLine(trim(rawLines[k])))
      => rawLines[k] \in Range(outLines)

\* C21 amended: every line of the document that, with the white space at
\* its ends removed, is not empty and is no header, no #EXTINF line and no
\* URL is in the output exactly once in that trimmed form, whatever the map
\* of valid links holds; a line with white space at its ends is not in the
\* output as it stands in the document
C21_OtherLinesTrimmedOnce ==
  rebuilt =>
    \A k \in 1..Len(rawLines) :
      isOtherLine(trim(rawLines[k]))
      => /\ occurrences(outLines, trim(rawLines[k])) = 1
         /\ rawLines[k] # trim(rawLines[k]) => rawLines[k] \notin Range(outLines)

\* a document with an #EXTGRP line between blanks and a validated entry has
\* been rebuilt: the output holds the line without the blanks
C21_Witness ==
  /\ rebuilt
  /\ tempValidLinks # EmptyMap
  /\ \E k \in 1..Len(rawLines) : rawLines[k] = <<Blank, "#EXTGRP", Blank>>
  /\ occurrences(outLines, <<"#EXTGRP">>) = 1
  /\ <<Blank, "#EXTGRP", Blank>> \notin Range(outLines)

-----------------------------------------------------------------------------
(* Properties of parseM3UContent *)

parsed == pc = "parsed"
isMarker(line) == startsWith(line, EXTINF)
isBlankOrComment(line) == line = <<>> \/ line[1] \in {"#EXTGRP", EXTM3U, EXTINF}
linesBetween(link) ==
  {k \in 0..(Len(docLines) - 1) :
     link.originalTitleLineIndex < k /\ k < link.originalIndex}

\* C22 as stated: an entry has a metadata line only if every line between
\* the marker and the resource line is blank or a comment
C22_MarkerImmediatelyPrecedes ==
  parsed =>
    \A e \in Entries :
      At(linksToProcess, e).title # <<>>
      => \A k \in linesBetween(At(linksToProcess, e)) :
           isBlankOrComment(At(docLines, k))

\* C22 amended: an entry has a metadata line exactly when a marker line
\* lies before its resource line with no other marker line and no resource
\* line between the two; the lines between may hold anything else (blank,
\* comment or other text), and the line attached is that marker line
C22_MarkerIsLastUnconsumed ==
  parsed =>
    \A e \in Entries :
      LET link == At(linksToProcess, e)
          markers == {m \in 0..(link.originalIndex - 1) :
                        /\ isMarker(At(docLines, m))
                        /\ \A k \in (m + 1)..(link.originalIndex - 1) :
                             ~isMarker(At(docLines, k)) /\ ~isUrl(At(docLines, k))}
      IN  /\ link.title # <<>> <=> markers # {}
          /\ link.title # <<>> =>
               /\ link.originalTitleLineIndex \in markers
               /\ link.title = At(docLines, link.originalTitleLineIndex)
          /\ link.title = <<>> => link.originalTitleLineIndex = -1

\* an entry has the metadata line that stands two lines above it, a line of
\* free text lying between
C22_Witness ==
  /\ parsed
  /\ \E e \in Entries :
       LET link == At(linksToProcess, e) IN
       /\ link.title # <<>>
       /\ link.originalTitleLineIndex = link.originalIndex - 2
       /\ At(docLines, link.originalIndex - 1) = <<"free text">>

urlPositions == {k \in 0..(Len(docLines) - 1) : isUrl(At(docLines, k))}
maxOf(S) == CHOOSE m \in S : \A n \in S : n <= m
previousPosition(e) == IF e = 0 THEN -1 ELSE At(linksToProcess, e - 1).originalIndex

\* C23: parseM3UContent gives one entry for each line that, trimmed, starts
\* with http:// or https://, in increasing order of position, with the
\* trimmed line as its URL; the entry takes the last #EXTINF line met since
\* the entry before it, or no metadata (title '' and index -1) when there
\* is none, so no #EXTINF line belongs to two entries
C23_OneEntryPerResourceLine ==
  parsed =>
    /\ N = Cardinality(urlPositions)
    /\ {At(linksToProcess, e).originalIndex : e \in Entries} = urlPositions
    /\ \A e \in Entries :
         LET link == At(linksToProcess, e)
             pending == {m \in (previousPosition(e) + 1)..(link.originalIndex - 1) :
                           isMarker(At(docLines, m))}
         IN  /\ previousPosition(e) < link.originalIndex
             /\ link.url = At(docLines, link.originalIndex)
             /\ IF pending = {}
                  THEN link.title = <<>> /\ link.originalTitleLineIndex = -1
                  ELSE /\ link.originalTitleLineIndex = maxOf(pending)
                       /\ link.title = At(docLines, maxOf(pending))
    /\ \A e, f \in Entries :
         (e # f /\ At(linksToProcess, e).originalTitleLineIndex # -1)
         => At(linksToProcess, e).originalTitleLineIndex
              # At(linksToProcess, f).originalTitleLineIndex

\* a marker line is followed by two resource lines, the second written with
\* blanks around it: the first entry has the marker, the second has none
C23_Witness ==
  /\ parsed
  /\ N >= 2
  /\ At(linksToProcess, 0).title # <<>>
  /\ At(linksToProcess, 1).title = <<>>
  /\ At(linksToProcess, 1).originalIndex = At(linksToProcess, 0).originalIndex + 1
  /\ At(linksToProcess, 1).url = <<HTTPS, "x">>
  /\ \E k \in 1..Len(rawLines) : rawLines[k] = <<"ftp://", "y">>

-----------------------------------------------------------------------------
(* Properties of main *)

fileDone == pc = "fileDone"

\* C24: when the parser finds no entry, main makes no call of
\* checkSingleLink, rebuilds the content with an empty map (the header and
\* the document's other lines) and writes the result exactly when it holds
\* a line beyond the header
C24_NoEntriesPersistBeyondHeader ==
  (pc # "start" /\ N = 0)
  => /\ fileDone
     /\ DOMAIN probes = {}
     /\ linksProcessedCount = 0
     /\ tempValidLinks = EmptyMap
     /\ outLines = <<<<EXTM3U>>>> \o firstOtherLines(docLines, {})
     /\ written <=> Len(outLines) > 1

\* a document of the header alone has been handled: the rebuilt content is
\* the header and it is not written
C24_Witness ==
  /\ fileDone
  /\ N = 0
  /\ outLines = <<<<EXTM3U>>>>
  /\ ~written

\* a document without entries and with an #EXTGRP line has been written
C24_WrittenWithoutEntries ==
  /\ fileDone
  /\ N = 0
  /\ outLines = << <<EXTM3U>>, <<"#EXTGRP">> >>
  /\ written

\* C25: when the document has entries and none is valid, main writes
\* nothing and does not even rebuild the content, although the document
\* holds other lines that the rebuild would keep
C25_NothingValidNothingWritten ==
  (fileDone /\ N > 0 /\ tempValidLinks = EmptyMap)
  => /\ ~written
     /\ outputM3uContent = NoOutput

\* a document with an #EXTGRP line and entries that all failed has been
\* handled and nothing is written
C25_Witness ==
  /\ fileDone
  /\ N > 1
  /\ linksProcessedCount = N
  /\ tempValidLinks = EmptyMap
  /\ \E k \in 1..Len(docLines) : docLines[k] = <<"#EXTGRP">>
  /\ ~written

runOver == pc \in {"exited", "allDone"}
allFiles == 0..(Len(run.files) - 1)

\* C26: a file that cannot be read, or whose destination cannot be
\* written, ends the processing of that file only: when the run is over
\* every file of the directory has been taken up
C26_FailureAbortsOnlyThatDocument ==
  runOver => run.handled = allFiles

\* what the run does instead: the first failure ends the run with exit
\* code 1, and no file after the failed one is read or written
C26_FirstFailureEndsRun ==
  /\ run.exitCode = 1 <=> pc = "exited"
  /\ pc = "exited"
     => /\ run.handled = 0..run.index
        /\ \A k \in allFiles : k > run.index => k \notin run.persisted
  /\ pc = "allDone" => run.handled = allFiles

\* C27: no step of checkSingleLink changes the entry it was given or the
\* map of valid links: from the parse on, the entries stay what the parser
\* made of the document, redirects followed or not; the calls made for a
\* redirect carry the new URL themselves; and the map changes only in the
\* step of the completion callback, which stores the entry's own position
\* and metadata line
C27_ValidatorMutatesNothingShared ==
  [][ /\ pc' # "start" => linksToProcess' = parseM3UContent(originalM3uContent')
      /\ calls' # calls => tempValidLinks' = tempValidLinks
      /\ tempValidLinks' # tempValidLinks
         => /\ calls' = calls
            /\ probes[0].phase = "resolved"
            /\ probes'[0].phase = "done"
            /\ linksProcessedCount' = linksProcessedCount + 1
            /\ DOMAIN tempValidLinks' = {At(linksToProcess, 0).originalIndex}
            /\ \A k \in DOMAIN tempValidLinks' :
                 tempValidLinks'[k].titleLine = At(linksToProcess, 0).title
    ]_vars

\* an entry was validated behind a redirect: the map holds the final URL
\* and the entry still holds the URL parsed from the document
C27_Witness ==
  /\ callbackRan
  /\ Len(calls) > 1
  /\ finalUrls = {lastCall.url}
  /\ At(linksToProcess, 0).url = calls[1].url
  /\ At(linksToProcess, 0).url # lastCall.url

persisted == pc = "persisted"

\* C28: whatever the document and whichever of its entries are valid, each
\* final URL of the map of valid links is in the rebuilt content exactly
\* once; so with at least one valid entry the content is more than the
\* header, main writes it, and the branch of the warning is not taken
C28_NoReachableStreamLost ==
  /\ (rebuilt \/ persisted)
     => \A p \in DOMAIN tempValidLinks :
          occurrences(outLines, tempValidLinks[p].urlLine) = 1
  /\ (rebuilt /\ tempValidLinks # EmptyMap)
     => Len(outLines) > 1 /\ trim(outputM3uContent) # <<EXTM3U>>
  /\ (persisted /\ tempValidLinks # EmptyMap) => written

\* the content of a document whose two entries were validated at the same
\* final URL, one behind a redirect, has been written with that URL once
C28_Witness ==
  /\ persisted
  /\ written
  /\ N = 2
  /\ MapSize(tempValidLinks) = 2
  /\ At(linksToProcess, 0).url # At(linksToProcess, 1).url
  /\ Cardinality(finalUrls) = 1
  /\ \A u \in finalUrls : occurrences(outLines, u) = 1

markerPositions == {k \in 0..(Len(docLines) - 1) : isMarker(At(docLines, k))}
nextIsValid(k) == k + 1 < Len(docLines) /\ Has(tempValidLinks, k + 1)
emittedWithResource(k) ==
  \E j \in 1..(Len(outLines) - 1) :
    /\ outLines[j] = At(docLines, k)
    /\ outLines[j + 1] = tempValidLinks[k + 1].urlLine

\* C29: the #EXTINF line at index k is in the output, followed by its
\* resource line, exactly when index k + 1 is a key of the map of valid
\* links; the line that follows it is then the entry's final URL, which the
\* output holds once only (the line at k + 1 is not taken up again on its
\* own); when k + 1 is no key the #EXTINF line is not in the output, unless
\* an equal #EXTINF line elsewhere in the document has a valid next index
C29_MarkerEmittedIffNextValid ==
  rebuilt =>
    \A k \in markerPositions :
      IF nextIsValid(k)
        THEN /\ emittedWithResource(k)
             /\ occurrences(outLines, tempValidLinks[k + 1].urlLine) = 1
        ELSE \/ At(docLines, k) \notin Range(outLines)
             \/ \E m \in markerPositions :
                  m # k /\ At(docLines, m) = At(docLines, k) /\ nextIsValid(m)

\* the indices of the document at which the scan emits the value line
emitters(line) ==
  {k \in 0..(Len(docLines) - 1) :
     \/ isMarker(At(docLines, k)) /\ nextIsValid(k)
          /\ tempValidLinks[k + 1].titleLine = line
     \/ Has(tempValidLinks, k) /\ tempValidLinks[k].urlLine = line
     \/ isOtherLine(At(docLines, k)) /\ At(docLines, k) = line}
firstEmission(line) == CHOOSE k \in emitters(line) : \A m \in emitters(line) : k <= m

\* C30: behind the header, every line of the output is emitted from some
\* line of the document (as its metadata line, its final URL or its own
\* trimmed value), and the lines of the output stand in the order of the
\* document lines that first emit them
C30_OrderPreserved ==
  rebuilt =>
    /\ \A a \in 2..Len(outLines) : emitters(outLines[a]) # {}
    /\ \A a, b \in 2..Len(outLines) :
         a < b => firstEmission(outLines[a]) < firstEmission(outLines[b])

\* a document with an #EXTGRP line and an entry validated behind a redirect
\* has been rebuilt into the header and at least three more lines
C30_Witness ==
  /\ rebuilt
  /\ Len(outLines) >= 4
  /\ \E k \in 2..Len(outLines) : isOtherLine(outLines[k])
  /\ \E p \in DOMAIN tempValidLinks : tempValidLinks[p].urlLine # At(docLines, p)

-----------------------------------------------------------------------------
(* Timers left behind by a validation *)

\* C32: when a validation has returned, whether on a response, an abort, a
\* fetch error or a location that cannot be resolved, none of the timers
\* armed by its calls is still armed, so no timer can fire afterwards
C32_NoTimerOutlivesValidation ==
  probeIsResolved
  => /\ \A k \in 1..Len(calls) : calls[k].timer \in {"cleared", "fired"}
     /\ \A k \in 1..Len(calls) : ~ENABLED ProbeTimerFires(k)

\* a validation has returned "invalid" on a fetch error behind a redirect
\* and the timers of both its calls are cleared
C32_Witness ==
  /\ probeIsResolved
  /\ Len(calls) = 2
  /\ lastCall.resp.kind = "error"
  /\ outcome.status = "invalid"
  /\ \A k \in 1..Len(calls) : calls[k].timer = "cleared"

-----------------------------------------------------------------------------
(* The order of main's steps over several files *)

pipelineOrder ==
  { <<"start", "race">>, <<"start", "allSettled">>, <<"start", "fileDone">>,
    <<"race", "allSettled">>, <<"allSettled", "returned">>,
    <<"returned", "fileDone">>, <<"fileDone", "start">> }
probeStarts(e) ==
  /\ probes'[e].phase = "fetching"
  /\ e \notin DOMAIN probes \/ probes[e].phase = "idle"

\* C31: for each file main parses, runs processLinks to its return, rebuilds
\* and decides on writing, in that order; it goes to the next file only
\* from that decision, when every validation of the file has completed;
\* validations start only inside processLinks of the current file; so over
\* the whole run at most concurrencyLimit validations are in flight
C31_PipelineInSequence ==
  [][ /\ Cardinality(InFlight') <= concurrencyLimit
      /\ pc' # pc => <<pc, pc'>> \in pipelineOrder
      /\ run'.index # run.index
         => /\ pc = "fileDone"
            /\ run'.index = run.index + 1
            /\ \A e \in DOMAIN probes : probes[e].phase = "done"
      /\ (\E e \in DOMAIN probes' : probeStarts(e)) => pc \in {"start", "race"}
      /\ (outputM3uContent' # outputM3uContent /\ outputM3uContent' # NoOutput)
         => /\ pc' = "fileDone"
            /\ \A e \in DOMAIN probes : probes[e].phase = "done"
    ]_vars

\* the first file has been written and the second is in processLinks with
\* concurrencyLimit validations in flight
C31_Witness ==
  /\ run.index = 1
  /\ 0 \in run.persisted
  /\ pc = "race"
  /\ Cardinality(InFlight) = concurrencyLimit

-----------------------------------------------------------------------------
(* The slug scrapers: src/genres.js, and its copies src/languages.js and
   src/unnamed/part_001, which differ in the list they walk and in the names
   (languages, completedLanguages, scrapeLanguage, scrapeLanguagePage).

   An awaited browser call (newContext, newPage, a page attempt, close) is a
   step; a call of the file system (writeFileSync) or of the browser either
   returns or throws, and which of the two is an input of the step. *)

RESULTS_PER_PAGE == 25

SAVE_EVERY_N_PAGES == 5

\* the default of the parameter retries of scrapeGenrePage
retries == 3

\* most items of the list the scraper walks
MaxGenres == 2

\* the head of the list genres, with completed counts of one page (5) and of
\* six pages (130), the shortest that has a periodic save before its last page
genreList ==
  << [primaryKey |-> "1",  completed |-> 5],
     [primaryKey |-> "37", completed |-> 130],
     [primaryKey |-> "38", completed |-> 5],
     [primaryKey |-> "39", completed |-> 5] >>

\* Math.ceil(genre.completed / RESULTS_PER_PAGE)
totalPages(genre) == (genre.completed + RESULTS_PER_PAGE - 1) \div RESULTS_PER_PAGE

\* the slug file of the item being scraped, before the first save of this run
NoFile == [written |-> FALSE, slugs |-> {}]

\* the slugs the page pageNum of an item lists
slugsOf(pageNum) == {pageNum}

\* a progress file written by earlier runs: the keys of some items, in the
\* order of the list, each with its result
loadProgress(g, done) ==
  LET RECURSIVE Keep(_)
      Keep(k) ==
        IF k = 0 THEN [completedGenres |-> <<>>, results |-> <<>>]
        ELSE LET before == Keep(k - 1)
                 genre == g[k]
             IN IF genre.primaryKey \in done
                  THEN [completedGenres |-> Append(before.completedGenres, genre.primaryKey),
                        results |-> Append(before.results,
                                           [primaryKey |-> genre.primaryKey,
                                            found |-> totalPages(genre),
                                            error |-> "none"])]
                  ELSE before
  IN Keep(Len(g))

saveProgress(s) == [s EXCEPT !.file = s.progress]

saveSlugsToFile(s) == [s EXCEPT !.slugFile = [written |-> TRUE, slugs |-> s.allSlugs]]

\* mutant of scrapeGenrePage: the error of the last attempt is thrown on
scrapeGenrePageRethrows(pageNum, attempt, loaded) ==
  IF loaded THEN [returned |-> TRUE, slugs |-> slugsOf(pageNum), thrown |-> FALSE]
  ELSE IF attempt = retries THEN [returned |-> FALSE, slugs |-> {}, thrown |-> TRUE]
  ELSE [returned |-> FALSE, slugs |-> {}, thrown |-> FALSE]

\* one attempt of scrapeGenrePage: loaded says whether goto, the waits and the
\* extraction all went through
scrapeGenrePage(pageNum, attempt, loaded) ==
  IF loaded THEN [returned |-> TRUE, slugs |-> slugsOf(pageNum), thrown |-> FALSE]
  ELSE IF attempt = retries THEN [returned |-> TRUE, slugs |-> {}, thrown |-> FALSE]
  ELSE [returned |-> FALSE, slugs |-> {}, thrown |-> FALSE]

\* the catch block of scrapeGenre: the emergency save, which may throw in its
\* turn, and the rethrow; the finally block is the step CloseContext
scrapeGenreCatch(s, message, rescued) ==
  LET saved == IF s.allSlugs # {} /\ rescued THEN saveSlugsToFile(s) ELSE s
  IN [saved EXCEPT !.pc = "close",
                   !.error = IF s.allSlugs # {} /\ ~rescued THEN "write" ELSE message,
                   !.lost = @ \/ (s.allSlugs # {} /\ ~rescued)]

\* the body of scrapeGenre's page loop after scrapeGenrePage returned slugs,
\* and the final save after the last page
pageDone(s, slugs, stored, rescued) ==
  LET genre == At(s.genres, s.i)
      added == [s EXCEPT !.allSlugs = @ \cup slugs]
      periodic == added.pageNum % SAVE_EVERY_N_PAGES = 0
  IN IF periodic /\ ~stored THEN scrapeGenreCatch(added, "write", rescued)
     ELSE LET kept == IF periodic THEN saveSlugsToFile(added) ELSE added
          IN IF kept.pageNum < totalPages(genre)
               THEN [kept EXCEPT !.pageNum = @ + 1, !.attempt = 1]
             ELSE IF stored THEN [saveSlugsToFile(kept) EXCEPT !.pc = "close"]
             ELSE scrapeGenreCatch(kept, "write", rescued)

\* mutant of mainCatch: the failed item is marked completed all the same
mainCatchMarksCompleted(s, message, saved) ==
  LET genre == At(s.genres, s.i)
      recorded == [s EXCEPT !.progress.results =
                              Append(@, [primaryKey |-> genre.primaryKey,
                                         found |-> 0, error |-> message]),
                            !.progress.completedGenres = Append(@, genre.primaryKey)]
  IN IF saved
       THEN [saveProgress(recorded) EXCEPT !.i = @ + 1, !.pc = "loop", !.error = "none"]
       ELSE [recorded EXCEPT !.pc = "finally", !.error = "write"]

\* the catch block of main's loop body
mainCatch(s, message, saved) ==
  LET genre == At(s.genres, s.i)
      recorded == [s EXCEPT !.progress.results =
                              Append(@, [primaryKey |-> genre.primaryKey,
                                         found |-> 0, error |-> message])]
  IN IF saved
       THEN [saveProgress(recorded) EXCEPT !.i = @ + 1, !.pc = "loop", !.error = "none"]
       ELSE [recorded EXCEPT !.pc = "finally", !.error = "write"]

\* main's loop body after scrapeGenre returned its result
mainRecord(s, saved, stats, resaved) ==
  LET genre == At(s.genres, s.i)
      pushed == [s EXCEPT !.progress.results =
                            Append(@, [primaryKey |-> genre.primaryKey,
                                       found |-> Cardinality(s.allSlugs),
                                       error |-> "none"]),
                          !.progress.completedGenres = Append(@, genre.primaryKey)]
  IN IF ~saved THEN mainCatch(pushed, "write", resaved)
     ELSE IF ~stats THEN mainCatch(saveProgress(pushed), "write", resaved)
     ELSE [saveProgress(pushed) EXCEPT !.i = @ + 1, !.pc = "loop"]

\* scrapeGenre rejected: main's loop body goes to its catch block
scrapeGenreThrew(s, saved) ==
  mainCatch([s EXCEPT !.threw = @ \cup {At(s.genres, s.i).primaryKey}], s.error, saved)

ScraperStart(g, progress) ==
  [pc |-> "loop", genres |-> g, loaded |-> progress.completedGenres,
   progress |-> progress, file |-> progress, i |-> 0, pageNum |-> 0,
   attempt |-> 0, log |-> <<>>, allSlugs |-> {}, slugFile |-> NoFile,
   context |-> "none", contexts |-> 0, browser |-> "open", error |-> "none", lost |-> FALSE,
   scraped |-> <<>>, threw |-> {}, exit |-> "running"]

InitScrape ==
  /\ originalM3uContent = <<>>
  /\ linksToProcess = <<>>
  /\ pc = "off"
  /\ i = 0
  /\ probes = <<>>
  /\ activePromises = {}
  /\ awaited = {}
  /\ linksProcessedCount = 0
  /\ tempValidLinks = EmptyMap
  /\ outputM3uContent = NoOutput
  /\ written = FALSE
  /\ submitted = <<>>
  /\ calls = <<>>
  /\ run = NoRun
  /\ logo = NoLogo
  /\ scraper \in {ScraperStart(SubSeq(genreList, 1, n), loadProgress(SubSeq(genreList, 1, n), done)) :
                    n \in 1..MaxGenres,
                    done \in SUBSET {genreList[k].primaryKey : k \in 1..MaxGenres}}

\* main: an item whose key is in the completed list is skipped
Skip ==
  /\ scraper.pc = "loop"
  /\ scraper.i < Len(scraper.genres)
  /\ \E k \in 1..Len(scraper.progress.completedGenres) :
       scraper.progress.completedGenres[k] = At(scraper.genres, scraper.i).primaryKey
  /\ scraper' = [scraper EXCEPT !.i = @ + 1]
  /\ UNCHANGED <<checkerVars, logo>>

\* main calls scrapeGenre, which awaits browser.newContext
NewContext(opened, saved) ==
  /\ scraper.pc = "loop"
  /\ scraper.i < Len(scraper.genres)
  /\ ~\E k \in 1..Len(scraper.progress.completedGenres) :
        scraper.progress.completedGenres[k] = At(scraper.genres, scraper.i).primaryKey
  /\ LET called == [scraper EXCEPT !.scraped = Append(@, At(scraper.genres, scraper.i).primaryKey),
                                   !.lost = FALSE, !.allSlugs = {}, !.slugFile = NoFile,
                                   !.log = <<>>, !.context = "none"]
     IN scraper' = IF opened
                     THEN [called EXCEPT !.context = "open", !.contexts = @ + 1,
                                        !.pc = "newPage"]
                     ELSE scrapeGenreThrew([called EXCEPT !.error = "newContext"], saved)
  /\ UNCHANGED <<checkerVars, logo>>

\* scrapeGenre awaits context.newPage, before its try block
NewPage(opened, saved) ==
  /\ scraper.pc = "newPage"
  /\ scraper' = IF opened
                  THEN [scraper EXCEPT !.pc = "pages", !.pageNum = 1, !.attempt = 1]
                  ELSE scrapeGenreThrew([scraper EXCEPT !.error = "newPage"], saved)
  /\ UNCHANGED <<checkerVars, logo>>

\* one attempt of scrapeGenrePage and, when it returns, the rest of the page
\* loop's body
Attempt(loaded, stored, rescued) ==
  /\ scraper.pc = "pages"
  /\ LET result == scrapeGenrePage(scraper.pageNum, scraper.attempt, loaded)
         logged == [scraper EXCEPT !.log = IF scraper.attempt = 1 THEN <<loaded>>
                                           ELSE Append(@, loaded)]
     IN scraper' = IF result.thrown THEN scrapeGenreCatch(logged, "page", rescued)
                   ELSE IF result.returned THEN pageDone(logged, result.slugs, stored, rescued)
                   ELSE [logged EXCEPT !.attempt = @ + 1]
  /\ UNCHANGED <<checkerVars, logo>>

\* the finally block of scrapeGenre, and main's loop body after the call
CloseContext(saved, stats, resaved) ==
  /\ scraper.pc = "close"
  /\ LET closed == [scraper EXCEPT !.context = "closed", !.contexts = @ - 1]
     IN scraper' = IF scraper.error = "none"
                     THEN mainRecord(closed, saved, stats, resaved)
                     ELSE scrapeGenreThrew(closed, resaved)
  /\ UNCHANGED <<checkerVars, logo>>

\* the finally block of main: browser.close closes the browser and with it
\* every context still open
CloseBrowser ==
  /\ \/ scraper.pc = "finally"
     \/ scraper.pc = "loop" /\ ~(scraper.i < Len(scraper.genres))
  /\ scraper' = [scraper EXCEPT !.pc = "done", !.browser = "closed", !.contexts = 0,
                                !.context = IF @ = "open" THEN "closed" ELSE @,
                                !.exit = IF scraper.error = "none" THEN "resolved"
                                         ELSE "rejected"]
  /\ UNCHANGED <<checkerVars, logo>>

NextScrape ==
  \/ Skip
  \/ \E opened, saved \in BOOLEAN : NewContext(opened, saved)
  \/ \E opened, saved \in BOOLEAN : NewPage(opened, saved)
  \/ \E loaded, stored, rescued \in BOOLEAN : Attempt(loaded, stored, rescued)
  \/ \E saved, stats, resaved \in BOOLEAN : CloseContext(saved, stats, resaved)
  \/ CloseBrowser

SpecScrape == InitScrape /\ [][NextScrape]_vars

-----------------------------------------------------------------------------
(* Properties of the slug scrapers *)

completedKeys(progress) == Range(progress.completedGenres)

noKeyTwice(keys) ==
  \A j, k \in 1..Len(keys) : j # k => keys[j] # keys[k]

currentKey == At(scraper.genres, scraper.i).primaryKey

\* C33: an item whose key is in the loaded completed list is not scraped in
\* the run, and no item is scraped twice; a key is appended to the completed
\* list, and a progress file holding it is written, only in the step in which
\* scrapeGenre returned without an error; so neither the completed list in
\* memory nor the one in the progress file ever holds a key twice or the key
\* of an item whose scrape threw.
C33_CompletedOnlyAfterReturn ==
  [][ /\ noKeyTwice(scraper'.scraped)
      /\ \A k \in 1..Len(scraper'.scraped) : scraper'.scraped[k] \notin Range(scraper'.loaded)
      /\ noKeyTwice(scraper'.progress.completedGenres)
      /\ noKeyTwice(scraper'.file.completedGenres)
      /\ scraper'.threw \cap (completedKeys(scraper'.progress) \cup completedKeys(scraper'.file)) = {}
      /\ scraper'.progress.completedGenres # scraper.progress.completedGenres
           => /\ scraper.pc = "close"
              /\ scraper.error = "none"
              /\ scraper'.progress.completedGenres
                   = Append(scraper.progress.completedGenres, currentKey)
      /\ scraper'.file.completedGenres # scraper.file.completedGenres
           => /\ scraper.pc = "close"
              /\ scraper.error = "none"
              /\ scraper'.file.completedGenres
                   = Append(scraper.file.completedGenres, currentKey)
    ]_vars

C33_Witness ==
  /\ scraper.pc = "done"
  /\ scraper.loaded = <<"1">>
  /\ scraper.scraped = <<"37">>
  /\ scraper.file.completedGenres = <<"1", "37">>

lastLogged(s) == s.log[Len(s.log)]

\* C34: in the page loop every step is one attempt of scrapeGenrePage, the
\* attempt-th of at most `retries` for the page, made only after failed ones.
\* A successful attempt ends the page with its slugs added; a failed attempt
\* before the last leads to the next attempt of the same page with nothing
\* added; the last failed attempt ends the page with nothing added.  No attempt
\* makes scrapeGenre throw: the only error of the page loop is a failed write
\* of the slug file, in a step that saves (every SAVE_EVERY_N_PAGES pages and
\* after the last page), so an item whose attempts all failed goes on to be
\* recorded as completed.
C34_RetryBoundedNeverThrows ==
  [][ /\ scraper.pc = "pages" =>
        /\ scraper.attempt \in 1..retries
        /\ Len(scraper'.log) = scraper.attempt
        /\ \A k \in 1..(Len(scraper'.log) - 1) : scraper'.log[k] = FALSE
        /\ LET returned == lastLogged(scraper') \/ scraper.attempt = retries
               saves == \/ scraper.pageNum % SAVE_EVERY_N_PAGES = 0
                        \/ scraper.pageNum = totalPages(At(scraper.genres, scraper.i))
           IN /\ ~returned => /\ scraper'.pc = "pages"
                              /\ scraper'.pageNum = scraper.pageNum
                              /\ scraper'.attempt = scraper.attempt + 1
                              /\ scraper'.allSlugs = scraper.allSlugs
              /\ returned => /\ scraper'.allSlugs
                                  = scraper.allSlugs
                                      \cup (IF lastLogged(scraper') THEN {scraper.pageNum} ELSE {})
                             /\ \/ scraper'.pc = "close"
                                \/ /\ scraper'.pc = "pages"
                                   /\ scraper'.pageNum = scraper.pageNum + 1
                                   /\ scraper'.attempt = 1
              /\ scraper'.error \in {"none", "write"}
              /\ scraper'.error = "write" => returned /\ saves
      /\ (scraper.pc = "close" /\ scraper.error = "none")
           => currentKey \in completedKeys(scraper'.progress)
    ]_vars

C34_Witness ==
  /\ scraper.pc = "done"
  /\ scraper.scraped = <<"1">>
  /\ scraper.log = <<FALSE, FALSE, FALSE>>
  /\ scraper.allSlugs = {}
  /\ scraper.file.completedGenres = <<"1">>
  /\ scraper.file.results = <<[primaryKey |-> "1", found |-> 0, error |-> "none"]>>

lastResult(s) == s.progress.results[Len(s.progress.results)]

\* the catch block of main saved the progress file and the loop goes on
mainWentOn == scraper'.pc = "loop" /\ scraper'.i = scraper.i + 1

\* C35: in the step in which scrapeGenre throws: the slugs collected so far,
\* if any, are in the slug file (unless the emergency write itself failed); no
\* browser context is left open; an error result for the item is recorded and
\* the item's key is not in the completed list; and, unless the write of the
\* progress file in the catch block failed, the progress file holds that
\* result and the run continues with the next item.  When main is over the
\* browser is closed.
C35_FailureIsolated ==
  [][ /\ scraper'.threw # scraper.threw =>
           /\ (scraper'.allSlugs # {} /\ ~scraper'.lost)
                => scraper'.slugFile = [written |-> TRUE, slugs |-> scraper'.allSlugs]
           /\ scraper'.context # "open"
           /\ lastResult(scraper').primaryKey = currentKey
           /\ lastResult(scraper').error # "none"
           /\ currentKey \notin completedKeys(scraper'.progress)
           /\ currentKey \notin completedKeys(scraper'.file)
           /\ \/ mainWentOn /\ scraper'.file = scraper'.progress
              \/ scraper'.pc = "finally"
      /\ scraper'.pc = "done" => scraper'.browser = "closed"
    ]_vars

\* scrapeGenre threw on context.newPage: the context it opened is still open
\* while main goes on to the next item
C35_ContextLeftOpen ==
  /\ scraper.pc = "loop"
  /\ scraper.threw # {}
  /\ scraper.contexts > 0
  /\ scraper.browser = "open"

\* the statement of C35 for every throw but the one of context.newPage
C35_IsolatedOnceInsideTry ==
  [][ /\ (scraper'.threw # scraper.threw /\ scraper.pc # "newPage") =>
           /\ (scraper'.allSlugs # {} /\ ~scraper'.lost)
                => scraper'.slugFile = [written |-> TRUE, slugs |-> scraper'.allSlugs]
           /\ scraper'.context # "open"
           /\ lastResult(scraper').primaryKey = currentKey
           /\ lastResult(scraper').error # "none"
           /\ currentKey \notin completedKeys(scraper'.progress)
           /\ currentKey \notin completedKeys(scraper'.file)
           /\ \/ mainWentOn /\ scraper'.file = scraper'.progress
              \/ scraper'.pc = "finally"
      /\ scraper'.pc = "done" => scraper'.browser = "closed"
    ]_vars

-----------------------------------------------------------------------------
(* The logo tool: src/unnamed/part_000.

   processEntriesWithConcurrency searches a logo for every entry of a parsed
   playlist.  A search (findLogo) makes up to four requests one after the
   other: Google, the DuckDuckGo page, the DuckDuckGo API, Bing.  A request
   (makeRequest) is a chain of hops; the answer of a hop, an error or a
   timeout event is an input of the step that handles it. *)

\* most entries of a playlist
MaxLogoEntries == 3

\* the hops of a request are counted up to MaxHops
MaxHops == 2

\* config.concurrency: the values of --concurrency in the model
Concurrencies == {1, 2}

\* an entry of parseM3U, the n-th of its playlist: titled says whether the
\* #EXTINF line has a title, existingLogo is "old" when the line has a
\* non-empty tvg-logo attribute, logo is the tvg-logo of entry.extinf
LogoEntry(n, titled, existingLogo) ==
  [url |-> n, titled |-> titled, existingLogo |-> existingLogo, logo |-> existingLogo]

LogoPlaylists ==
  UNION { { [k \in 1..n |-> LogoEntry(k, kinds[k][1], kinds[k][2])] :
              kinds \in [1..n -> {<<TRUE, "">>, <<TRUE, "old">>, <<FALSE, "">>}] } :
          n \in 1..MaxLogoEntries }

\* what the body of a 200 answer holds: image URLs, a vqd token, JSON
LogoData == {"none", "image", "token", "tokenAndImage", "json", "jsonImage"}

\* extractImageUrls finds a URL in the body
hasImage(data) == data \in {"image", "tokenAndImage", "jsonImage"}

\* the body matches /vqd=['"]([^'"]+)['"]/
hasToken(data) == data \in {"token", "tokenAndImage"}

\* JSON.parse(apiResponse.data) returns
isJson(data) == data \in {"json", "jsonImage"}

\* what a hop can bring: a response, an error event, a timeout event
LogoAnswers ==
  [kind : {"response"}, statusCode : {200}, location : {"none"}, data : LogoData]
    \cup [kind : {"response"}, statusCode : {301},
          location : {"none", "absolute", "relative"}, data : {"none"}]
    \cup [kind : {"response"}, statusCode : {404}, location : {"none"}, data : {"none"}]
    \cup {[kind |-> "error", statusCode |-> 0, location |-> "none", data |-> "none"],
          [kind |-> "timeout", statusCode |-> 0, location |-> "none", data |-> "none"]}

requestPending ==
  [settled |-> FALSE, rejected |-> FALSE, statusCode |-> 0, data |-> "none", cause |-> "redirect"]

requestRejected(cause) ==
  [settled |-> TRUE, rejected |-> TRUE, statusCode |-> 0, data |-> "none", cause |-> cause]

requestResolved(answer) ==
  [settled |-> TRUE, rejected |-> FALSE, statusCode |-> answer.statusCode,
   data |-> answer.data, cause |-> "response"]

\* mutant of makeRequest: after MaxHops redirects the request is rejected
makeRequestBounded(hops, answer) ==
  IF answer.kind = "error" THEN requestRejected("error")
  ELSE IF answer.kind = "timeout" THEN requestRejected("timeout")
  ELSE IF answer.statusCode >= 300 /\ answer.statusCode < 400 /\ answer.location # "none"
    THEN IF hops >= MaxHops THEN requestRejected("redirects")
         ELSE IF answer.location = "relative" THEN requestRejected("error")
         ELSE requestPending
  ELSE requestResolved(answer)

\* makeRequest, after hops redirects, on the answer of the current hop: a 3xx
\* response with a location header is followed by a new makeRequest, whose
\* new URL(location) throws on a relative location; any other response
\* resolves the request; an error or timeout event of a hop rejects it
makeRequest(hops, answer) ==
  IF answer.kind = "error" THEN requestRejected("error")
  ELSE IF answer.kind = "timeout" THEN requestRejected("timeout")
  ELSE IF answer.statusCode >= 300 /\ answer.statusCode < 400 /\ answer.location # "none"
    THEN IF answer.location = "relative" THEN requestRejected("error")
         ELSE requestPending
  ELSE requestResolved(answer)

logoFound == [done |-> TRUE, found |-> TRUE, request |-> 0, pageImage |-> FALSE]
logoNull == [done |-> TRUE, found |-> FALSE, request |-> 0, pageImage |-> FALSE]
nextRequest(request, pageImage) ==
  [done |-> FALSE, found |-> FALSE, request |-> request, pageImage |-> pageImage]

\* findLogo and its three search functions after the request-th request
\* settled: 1 searchGoogleImages, 2 and 3 searchDuckDuckGoImages (page, API),
\* 4 searchBingImages; pageImage says whether the DuckDuckGo page held an image
findLogo(request, pageImage, settlement) ==
  LET ok == ~settlement.rejected /\ settlement.statusCode = 200
  IN CASE request = 1 ->
            IF ok /\ hasImage(settlement.data) THEN logoFound ELSE nextRequest(2, FALSE)
       [] request = 2 ->
            IF ok /\ hasToken(settlement.data)
              THEN nextRequest(3, hasImage(settlement.data))
              ELSE nextRequest(4, FALSE)
       [] request = 3 ->
            IF settlement.rejected \/ (ok /\ ~isJson(settlement.data))
              THEN IF pageImage THEN logoFound ELSE nextRequest(4, FALSE)
            ELSE IF ok /\ settlement.data = "jsonImage" THEN logoFound
            ELSE nextRequest(4, FALSE)
       [] OTHER ->
            IF ok /\ hasImage(settlement.data) THEN logoFound ELSE logoNull

settledTask(result) ==
  [state |-> "settled", request |-> 0, hops |-> 0, pageImage |-> FALSE,
   cause |-> "none", result |-> result]

\* the async callback of batch.map up to its first await
startTask(entry) ==
  IF entry.existingLogo # "" THEN settledTask("skipped")
  ELSE IF ~entry.titled THEN settledTask("error")
  ELSE [state |-> "searching", request |-> 1, hops |-> 0, pageImage |-> FALSE,
        cause |-> "none", result |-> "none"]

\* updateEntryWithLogo
updateEntryWithLogo(entry) == [entry EXCEPT !.logo = "found"]

LogoStart(entries, concurrency) ==
  [pc |-> "loop", entries |-> entries, concurrency |-> concurrency, i |-> 0,
   tasks |-> [k \in {} |-> settledTask("none")], results |-> <<>>,
   successCount |-> 0, failCount |-> 0]

InitLogo ==
  /\ originalM3uContent = <<>>
  /\ linksToProcess = <<>>
  /\ pc = "off"
  /\ i = 0
  /\ probes = <<>>
  /\ activePromises = {}
  /\ awaited = {}
  /\ linksProcessedCount = 0
  /\ tempValidLinks = EmptyMap
  /\ outputM3uContent = NoOutput
  /\ written = FALSE
  /\ submitted = <<>>
  /\ calls = <<>>
  /\ run = NoRun
  /\ scraper = NoScraper
  /\ logo \in {LogoStart(entries, concurrency) :
                 entries \in LogoPlaylists, concurrency \in Concurrencies}

\* entries.slice(i, i + concurrency), as indices
batchOf(s) == {k \in s.i..(s.i + s.concurrency - 1) : k < Len(s.entries)}

\* mutant of LogoBatchDone: the loop goes on when the first search settled
LogoBatchDoneOnFirst ==
  /\ logo.pc = "await"
  /\ \E k \in DOMAIN logo.tasks : logo.tasks[k].state = "settled"
  /\ logo' = [logo EXCEPT !.results = @ \o [n \in 1..Cardinality(batchOf(logo)) |->
                                              At(logo.entries, logo.i + n - 1)],
                          !.i = @ + logo.concurrency,
                          !.pc = "loop"]
  /\ UNCHANGED <<checkerVars, scraper>>

\* the loop head takes the next batch and starts its searches
LogoBatch ==
  /\ logo.pc = "loop"
  /\ logo.i < Len(logo.entries)
  /\ LET started == [k \in batchOf(logo) |-> startTask(At(logo.entries, k))]
     IN logo' = [logo EXCEPT !.tasks = started,
                             !.pc = "await",
                             !.failCount = @ + Cardinality({k \in batchOf(logo) :
                                                              started[k].result = "error"})]
  /\ UNCHANGED <<checkerVars, scraper>>

\* a hop of the request of search k is answered
LogoAnswer(k, answer) ==
  /\ logo.pc = "await"
  /\ k \in DOMAIN logo.tasks
  /\ logo.tasks[k].state = "searching"
  /\ LET task == logo.tasks[k]
         settlement == makeRequest(task.hops, answer)
         step == findLogo(task.request, task.pageImage, settlement)
     IN logo' =
          IF ~settlement.settled
            THEN [logo EXCEPT !.tasks[k].hops = IF @ < MaxHops THEN @ + 1 ELSE @,
                              !.tasks[k].cause = settlement.cause]
          ELSE IF ~step.done
            THEN [logo EXCEPT !.tasks[k].request = step.request,
                              !.tasks[k].hops = 0,
                              !.tasks[k].pageImage = step.pageImage,
                              !.tasks[k].cause = settlement.cause]
          ELSE IF step.found
            THEN [logo EXCEPT !.tasks[k] = [settledTask("found") EXCEPT !.cause = settlement.cause],
                              !.entries[k + 1] = updateEntryWithLogo(@),
                              !.successCount = @ + 1]
          ELSE [logo EXCEPT !.tasks[k] = [settledTask("notFound") EXCEPT !.cause = settlement.cause],
                            !.failCount = @ + 1]
  /\ UNCHANGED <<checkerVars, scraper>>

\* Promise.all(promises) resolved: results.push(...batchResults), i += concurrency
LogoBatchDone ==
  /\ logo.pc = "await"
  /\ \A k \in DOMAIN logo.tasks : logo.tasks[k].state = "settled"
  /\ logo' = [logo EXCEPT !.results = @ \o [n \in 1..Cardinality(batchOf(logo)) |->
                                              At(logo.entries, logo.i + n - 1)],
                          !.i = @ + logo.concurrency,
                          !.pc = "loop"]
  /\ UNCHANGED <<checkerVars, scraper>>

\* the loop is over: return results
LogoReturn ==
  /\ logo.pc = "loop"
  /\ ~(logo.i < Len(logo.entries))
  /\ logo' = [logo EXCEPT !.pc = "done"]
  /\ UNCHANGED <<checkerVars, scraper>>

NextLogo ==
  \/ LogoBatch
  \/ \E k \in 0..(MaxLogoEntries - 1), answer \in LogoAnswers : LogoAnswer(k, answer)
  \/ LogoBatchDone
  \/ LogoReturn

SpecLogo == InitLogo /\ [][NextLogo]_vars

-----------------------------------------------------------------------------
(* Properties of the logo tool *)

searching(s) == {k \in DOMAIN s.tasks : s.tasks[k].state = "searching"}

\* C36: at most `concurrency` searches are in flight; a search starts only in
\* a step of the loop head, when every search of the batch before has
\* settled, and the searches in flight are those of the batch
\* entries[i .. i + concurrency - 1]; and the list returned has the length of
\* the input and holds the entries in the order of the input, whatever the
\* order in which the searches settled.
C36_FixedSizeBatches ==
  [][ /\ Cardinality(searching(logo')) <= logo'.concurrency
      /\ searching(logo') \subseteq batchOf(logo')
      /\ (searching(logo') \ searching(logo) # {})
           => /\ logo.pc = "loop"
              /\ \A k \in DOMAIN logo.tasks : logo.tasks[k].state = "settled"
              /\ \A k \in DOMAIN logo.tasks : k < logo.i
      /\ logo'.pc = "done"
           => /\ Len(logo'.results) = Len(logo'.entries)
              /\ \A n \in 1..Len(logo'.results) :
                   /\ logo'.results[n].url = n
                   /\ logo'.results[n] = logo'.entries[n]
    ]_vars

C36_Witness ==
  /\ logo.pc = "done"
  /\ logo.concurrency = 2
  /\ Len(logo.results) = 3
  /\ logo.results[1].logo = ""
  /\ logo.results[2].logo = "found"
  /\ logo.results[3].logo = "found"
  /\ logo.failCount = 1
  /\ logo.successCount = 2

\* the answer of a hop that redirects to an absolute location
redirectAnswer ==
  [kind |-> "response", statusCode |-> 301, location |-> "absolute", data |-> "none"]

\* C37: a hop answered by a 3xx response with a location is followed, however
\* many hops the request has made: the request stays pending, its search
\* stays in flight and the loop stays at the same batch.  A request settles
\* only on a response that is not such a redirect, on an error or on a timeout
\* event; and the loop moves on from a batch, or adds to the results, only
\* when no search of the batch is in flight.  So a chain of redirects that
\* never ends, with no error and no timeout event, keeps the request, its
\* search and its batch pending for ever.
C37_RedirectsFollowedWithoutBound ==
  [][ /\ \A k \in DOMAIN logo.tasks :
           LogoAnswer(k, redirectAnswer)
             => /\ logo'.tasks[k].state = "searching"
                /\ logo'.tasks[k].request = logo.tasks[k].request
                /\ logo'.tasks[k].cause = "redirect"
                /\ logo'.tasks[k].hops >= logo.tasks[k].hops
                /\ logo'.pc = "await"
                /\ logo'.i = logo.i
                /\ logo'.results = logo.results
      /\ \A k \in searching(logo) :
           (logo'.tasks[k].state = "settled" \/ logo'.tasks[k].request # logo.tasks[k].request)
             => logo'.tasks[k].cause \in {"response", "error", "timeout"}
      /\ (logo'.i # logo.i \/ logo'.results # logo.results \/ logo'.pc = "done")
           => searching(logo) = {} /\ searching(logo') = {}
    ]_vars

\* a request has followed MaxHops redirects or more and is still pending,
\* while the other search of its batch has settled and the batch waits
C37_Witness ==
  /\ logo.pc = "await"
  /\ logo.concurrency = 2
  /\ DOMAIN logo.tasks = {0, 1}
  /\ logo.tasks[0].state = "settled"
  /\ logo.tasks[1].state = "searching"
  /\ logo.tasks[1].hops = MaxHops
  /\ logo.tasks[1].cause = "redirect"
  /\ ENABLED LogoAnswer(1, redirectAnswer)
  /\ ~ENABLED LogoBatchDone

=============================================================================
